---- MODULE Spec2Model ----
(***************************************************************************)
(* Model of the p2p-file-sharing node: the piece store                     *)
(* (src/torrent/piece_manager.py), the node orchestrator                   *)
(* (src/core/node.py), the upload-slot manager (src/strategies/choking.py) *)
(* and the piece selection (src/strategies/piece_selection.py).            *)
(*                                                                         *)
(* Four specifications share the variables:                                *)
(*   SpecStore  the PieceManager driven through its public methods with    *)
(*              arbitrary integer piece ids;                               *)
(*   SpecServe  the Node as run_seeder sets it up: receive threads that    *)
(*              answer piece_request frames, and the choke recompute;      *)
(*   Spec       the downloading Node: download_pieces, the receive         *)
(*              threads that take piece_response frames and the choke      *)
(*              recompute, on the same PieceManager;                       *)
(*   SpecPump   the request queue of the downloading Node: the request     *)
(*              pump and the timeout sweep as the clock advances.          *)
(***************************************************************************)
EXTENDS Integers, Sequences, FiniteSets, TLC

(***************************************************************************)
(* Bounds                                                                  *)
(***************************************************************************)
MaxSubmits == 2
MaxTime == 1
\* the intervals of the periodic activities, in ticks of the model's clock
RequestTimeout == 0
RotationInterval == 0
\* the age of last_seen past which the tracker drops a peer (300 s), and the
\* node's heartbeat interval (30 s), in ticks
InactivityTimeout == 0
HeartbeatInterval == 0
\* upload slots of the node under test
max_unchoked == 1
\* entries the request queue is followed up to
MaxQueue == 2
\* times the pump puts an entry back for want of a suitable peer
MaxRequeues == 1
\* bytes a peer is served before it stops asking
MaxUpload == 2
\* frames the remote end of a link sends
MaxFrames == 2
\* the largest max_retries a SocketWrapper is built with
MaxRetries == 2
\* peer_joined frames a client sends over one connection
MaxRegistrations == 2
\* the largest piece id and the largest pipeline depth a selection strategy
\* is called with
MaxSelPiece == 2
MaxDepth == 3
\* piece_response frames the node receives while its selection regime is
\* observed: as many as the manager's threshold
MaxResponses == 4
\* PeerDiscoveryState.min_peers (3 in the source) and discovery_timeout
\* (30 s), DownloadingState.progress_check_interval (5 s), on the scale of
\* the two peers and the clock of the model
min_peers == 2
discovery_timeout == 0
progress_check_interval == 0
\* the choking strategies are called with max_unchoked in 0..MaxSlots, on
\* download rates in 0..MaxRate
MaxSlots == 3
MaxRate == 1
\* Node.max_parallel_requests, set below the number of pieces so that the
\* cap can be met (the attribute defaults to DEFAULT_MAX_PARALLEL_REQUESTS)
max_parallel_requests == 1

(***************************************************************************)
(* Program constants                                                       *)
(***************************************************************************)
max_pipeline_depth == 5
\* DownloadingState.endgame_threshold * 100; peers asked per piece in endgame
endgame_threshold == 95
max_endgame_peers == 3
REQUEUE_PRIORITY_BOOST == 10
threshold == 4

(***************************************************************************)
(* The torrent: a file of total_size bytes cut in pieces of piece_size.    *)
(***************************************************************************)
FileData == <<1, 0, 1>>
piece_size == 2
total_size == Len(FileData)
total_pieces == (total_size + piece_size - 1) \div piece_size

PieceIds == 0..(total_pieces - 1)
\* piece ids a caller may pass: any integer, here the range and one below it
\* (a negative id is a valid index of a Python list)
AnyIds == (0 - 1)..(total_pieces - 1)

Min(a, b) == IF a < b THEN a ELSE b

PieceData(i) == SubSeq(FileData, i * piece_size + 1, Min((i + 1) * piece_size, total_size))

\* byte strings a peer may deliver: the true pieces, wrong content, wrong length, empty
DataVals == {PieceData(i) : i \in PieceIds} \cup {<<0, 0>>, <<>>}

\* hashlib.sha1(data).hexdigest(): a collision-free digest of the bytes
RECURSIVE sha1_from(_, _)
sha1_from(h, data) ==
  IF data = <<>> THEN h ELSE sha1_from(2 * h + Head(data), Tail(data))

sha1(data) == sha1_from(1, data)

pieces_hashes == [i \in PieceIds |-> sha1(PieceData(i))]

\* the length the torrent gives piece p: L, or T - (N-1)*L for the last piece
ExpectedLength(p) ==
  IF p = total_pieces - 1 THEN total_size - (total_pieces - 1) * piece_size ELSE piece_size

\* Python list indexing pieces_hashes[piece_id]: a negative index counts from
\* the end, an index outside [-N, N) raises IndexError
IndexError(p) == p >= total_pieces \/ p < 0 - total_pieces
ListIndex(p) == IF p < 0 THEN p + total_pieces ELSE p

\* init_storage pre-allocates the file: piece i reads as zero bytes
Zeros(i) == [k \in 1..ExpectedLength(i) |-> 0]

VARIABLES
  \* PieceManager
  completed_pieces,      \* set of piece ids: verified and saved
  in_progress_pieces,    \* function piece id -> time it was marked
  pending_verification,  \* function piece id -> data
  verify_spawned,        \* piece id -> number of verify threads started, not yet run
  verify_holding,        \* <<piece id, data>> -> number of verify threads hashing that data
  file,                  \* backing file: piece index -> bytes at its offset
  now,                   \* time.time()
  \* observations of the calls made
  nsubmits,              \* receive_piece calls so far
  lastCall,              \* the store call made by the last step, with its result
  submit_ok,             \* piece id -> number of receive_piece calls that returned True
  writes,                \* piece id -> number of successful writes to the file
  accepted               \* piece id -> set of byte strings added as Complete

VARIABLES
  \* Node
  peer_connections,      \* set of peer addresses with a started connection
  peer_pieces,           \* function peer address -> set of piece ids
  available_pieces,      \* ids of the entries of the available_pieces list
  my_pieces,             \* set of piece ids
  unchoked_peers,
  choked_peers,
  pending_requests,      \* function piece id -> [peer, timestamp]
  request_queue,         \* the PriorityQueue: <<priority, piece id>> in heap order
  node_state,            \* the class of Node.state (and of its current sub-state)
  tracker_connection,    \* TRUE when the tracker link is set
  \* UploadSlotManager and its OptimisticUnchokeStrategy
  peer_stats,            \* function peer address -> totals and rates
  stats_order,           \* insertion order of the keys of peer_stats
  optimistic_unchoked,
  last_rotation,
  \* PieceSelectionManager
  downloaded_pieces,
  \* the threads that run _handle_peer_message / _handle_piece_received
  handler,               \* function thread -> [pc, type, piece_id, data, peer]
  \* frames handed to SocketWrapper.send
  sent_now,              \* the frames enqueued by the last step
  last_control           \* peer -> the last choke / unchoke frame enqueued to it

VARIABLES
  \* the links of the node, seen from outside it
  last_received,         \* peer -> the last choke / unchoke frame it delivered to the node
  dead_connections,      \* peers whose SocketWrapper in peer_connections has ended
  \* one direction of a TCP link and its receiver
  wire,                  \* link -> bytes sent by the remote end and not yet read
  read_buffer,           \* link -> ConnectionHandler.read_buffer / the buffer of _handle_client
  link_state,            \* link -> "open", "reader_dead" or "closed"
  sent_frames,           \* link -> what the remote end has sent, in order
  delivered,             \* link -> what the receiver handed to its callback, in order
  \* Tracker
  active_peers,          \* function address -> [last_seen, pieces]
  active_order,          \* insertion order of the keys of active_peers
  client_address,        \* client connection -> the (ip, port) accept() returned for it
  registered,            \* client connection -> the address registered over it
  registrations,         \* client connection -> the peer_joined frames it has sent
  last_update,           \* client connection -> when it last sent update_pieces
  peer_list_sent         \* the peer_list the last step sent: [to, peers]

storeVars == <<completed_pieces, in_progress_pieces, pending_verification,
               verify_spawned, verify_holding, file, now>>
obsVars == <<nsubmits, lastCall, submit_ok, writes, accepted>>
VARIABLES
  piece_availability,    \* Node: piece id -> number of listed peers holding it
  dial,                  \* target -> the call of SocketWrapper.connect for it
  strategy_call,         \* a call of a strategy: its arguments and what it returned
  current_state,         \* LeecherState.current_state: the fields of the sub-state object
  asked                  \* piece id -> the peers a piece_request for it was enqueued to

chokeVars == <<unchoked_peers, choked_peers, peer_stats, stats_order,
               optimistic_unchoked, last_rotation>>
nodeRest == <<peer_connections, peer_pieces, available_pieces, my_pieces,
              pending_requests, request_queue, node_state, tracker_connection,
              downloaded_pieces, handler, last_control>>
nodeVars == <<nodeRest, sent_now>>
connVars == <<wire, read_buffer, link_state, sent_frames, delivered>>
trackerVars == <<active_peers, active_order, client_address, registered, registrations, last_update,
                 peer_list_sent>>
swarmVars == <<piece_availability>>
dialVars == <<dial>>
callVars == <<strategy_call>>
stateVars == <<current_state, asked>>
linkVars == <<last_received, dead_connections, connVars, trackerVars, swarmVars, dialVars, callVars,
              stateVars>>
vars == <<storeVars, obsVars, chokeVars, nodeVars, linkVars>>

Peers == {"p1", "p2"}

\* the node's link with a peer (SocketWrapper and its ConnectionHandler) and
\* the tracker's link with a client (Tracker._handle_client)
PeerLink == "peer_link"
ClientLink == "client_link"
Links == {PeerLink, ClientLink}

\* client connections of the tracker; an address is a host and a port
Clients == {"c1", "c2"}
NoAddress == [ip |-> "", port |-> ""]
Never == 0 - 1
NoPeerList == [to |-> "none", peers |-> {}]
NoPeer == "none"
Driver == "driver"
Tracker == "tracker"

\* Node.address, the node's own listening address
Self == "n0"

\* the hosts the node dials, and a SocketWrapper whose connect was not called
DialTargets == Peers \cup {Tracker}
NotDialled == [pc |-> "idle", max_retries |-> 0, retries |-> 0, attempts |-> 0]

\* dictionary helpers
Put(f, k, v) == [x \in (DOMAIN f) \cup {k} |-> IF x = k THEN v ELSE f[x]]
Del(f, k) == [x \in (DOMAIN f) \ {k} |-> f[x]]
EmptyMap == [x \in {} |-> 0]

NoCall == [op |-> "none", id |-> 0, ret |-> FALSE]

\* a step of the store alone: the node's fields stay, no frame is enqueued
NodeStill == UNCHANGED <<chokeVars, nodeRest>> /\ sent_now' = {}
NodeIdle == NodeStill /\ UNCHANGED linkVars

InitStore ==
  /\ completed_pieces = {}
  /\ in_progress_pieces = EmptyMap
  /\ pending_verification = EmptyMap
  /\ verify_spawned = [p \in AnyIds |-> 0]
  /\ verify_holding = [x \in AnyIds \X DataVals |-> 0]
  /\ file = [i \in PieceIds |-> Zeros(i)]
  /\ now = 0

Threads == Peers \cup {Driver}

IdleHandler == [pc |-> "idle", type |-> "none", piece_id |-> 0, data |-> <<>>, peer |-> NoPeer]

\* Node.__init__, UploadSlotManager.__init__, PieceSelectionManager.__init__;
\* pieces is the set the adapter assigns to my_pieces (run_seeder: all, run_leecher: none)
InitNode(pieces, state) ==
  /\ peer_connections = {}
  /\ peer_pieces = EmptyMap
  /\ available_pieces = {}
  /\ my_pieces = pieces
  /\ unchoked_peers = {}
  /\ choked_peers = {}
  /\ pending_requests = EmptyMap
  /\ request_queue = <<>>
  /\ node_state = state
  /\ tracker_connection = FALSE
  /\ peer_stats = EmptyMap
  /\ stats_order = <<>>
  /\ optimistic_unchoked = NoPeer
  /\ last_rotation = 0
  /\ downloaded_pieces = 0
  /\ handler = [t \in Threads |-> IdleHandler]
  /\ sent_now = {}
  /\ last_control = [x \in Peers |-> "none"]

\* no frame has been delivered yet
InitLink ==
  /\ last_received = [x \in Peers |-> "none"]
  /\ dead_connections = {}
  /\ wire = [l \in Links |-> <<>>]
  /\ read_buffer = [l \in Links |-> <<>>]
  /\ link_state = [l \in Links |-> "open"]
  /\ sent_frames = [l \in Links |-> <<>>]
  /\ delivered = [l \in Links |-> <<>>]
  /\ active_peers = EmptyMap
  /\ active_order = <<>>
  /\ client_address = [c \in Clients |-> NoAddress]
  /\ registered = [c \in Clients |-> NoAddress]
  /\ registrations = [c \in Clients |-> 0]
  /\ last_update = [c \in Clients |-> Never]
  /\ peer_list_sent = NoPeerList
  /\ piece_availability = [i \in PieceIds |-> 0]
  /\ dial = [t \in DialTargets |-> NotDialled]

\* no strategy has been called
NoStrategyCall == [op |-> "none"]
InitCall == strategy_call = NoStrategyCall

\* a sub-state object as its constructor leaves it: NodeState.__init__ sets
\* node to None, PeerDiscoveryState.__init__ reads the clock
NoNode == "None"
NewState(start) == [node |-> NoNode, start_time |-> start, last_progress_check |-> 0]

\* Node.__init__ builds LeecherState(), which builds PeerDiscoveryState()
InitLeecher ==
  /\ current_state = NewState(0)
  /\ asked = [p \in PieceIds |-> {}]

InitObs ==
  /\ nsubmits = 0
  /\ lastCall = NoCall
  /\ submit_ok = [p \in AnyIds |-> 0]
  /\ writes = [p \in AnyIds |-> 0]
  /\ accepted = [p \in AnyIds |-> {}]

\* PieceManager.is_complete
is_complete == Cardinality(completed_pieces) = total_pieces

\* PieceManager.is_piece_needed
is_piece_needed(p) == p \notin completed_pieces /\ p \notin DOMAIN in_progress_pieces

\* PieceManager.get_needed_pieces
get_needed_pieces == {i \in PieceIds : is_piece_needed(i)}

\* the record of a store call and of what it returned
CallRecord(op, p, ret) == [op |-> op, id |-> p, ret |-> ret]

(***************************************************************************)
(* PieceManager.mark_piece_in_progress                                     *)
(***************************************************************************)
mark_result(p) == ~(p \in DOMAIN in_progress_pieces \/ p \in completed_pieces)

mark_piece_in_progress(p) ==
  /\ NodeIdle
  /\ lastCall' = CallRecord("mark", p, mark_result(p))
  /\ in_progress_pieces' =
       IF mark_result(p) THEN Put(in_progress_pieces, p, now) ELSE in_progress_pieces
  /\ UNCHANGED <<completed_pieces, pending_verification, verify_spawned, verify_holding, file, now>>
  /\ UNCHANGED <<nsubmits, submit_ok, writes, accepted>>

(***************************************************************************)
(* PieceManager.receive_piece: always returns True, verification is left   *)
(* to a thread started under the lock                                      *)
(***************************************************************************)
receive_result(p, d) == TRUE

\* the store's part of receive_piece, one of at most limit calls
receive_piece_store_within(limit, p, d) ==
  /\ nsubmits < limit
  /\ nsubmits' = nsubmits + 1
  /\ in_progress_pieces' = Del(in_progress_pieces, p)
  /\ pending_verification' = Put(pending_verification, p, d)
  /\ verify_spawned' = [verify_spawned EXCEPT ![p] = @ + 1]
  /\ UNCHANGED verify_holding
  /\ submit_ok' = [submit_ok EXCEPT ![p] = IF receive_result(p, d) THEN @ + 1 ELSE @]
  /\ UNCHANGED <<completed_pieces, file, now, writes, accepted>>

receive_piece_store(p, d) == receive_piece_store_within(MaxSubmits, p, d)

receive_piece(p, d) ==
  /\ NodeIdle
  /\ receive_piece_store(p, d)
  /\ lastCall' = CallRecord("receive", p, receive_result(p, d))

(***************************************************************************)
(* PieceManager._verify_and_save_piece, one thread per receive_piece       *)
(***************************************************************************)
\* lines 132-137, under the lock: take the data out of pending_verification,
\* or return when another thread took it
verify_take(p) ==
  /\ NodeIdle
  /\ verify_spawned[p] > 0
  /\ verify_spawned' = [verify_spawned EXCEPT ![p] = @ - 1]
  /\ IF p \in DOMAIN pending_verification
     THEN /\ verify_holding' = [verify_holding EXCEPT ![<<p, pending_verification[p]>>] = @ + 1]
          /\ pending_verification' = Del(pending_verification, p)
     ELSE UNCHANGED <<verify_holding, pending_verification>>
  /\ UNCHANGED <<completed_pieces, in_progress_pieces, file, now>>
  /\ lastCall' = NoCall
  /\ UNCHANGED <<nsubmits, submit_ok, writes, accepted>>

\* the comparison of line 143 left out: every submission passes
hash_always_matches(p, d) == ~IndexError(p)

\* line 143: sha1 != self.pieces_hashes[piece_id]
hash_matches(p, d) == sha1(d) = pieces_hashes[ListIndex(p)]

\* _write_piece_to_disk: seek() to a negative offset raises OSError, which is
\* caught and reported there; the caller goes on
write_succeeds(p) == p * piece_size >= 0

\* lines 139-151: hash, compare, write at offset piece_id * piece_size, add
\* to completed_pieces; an IndexError ends the thread.  disk_ok is FALSE
\* when seek, write or flush raises IOError for a reason of the disk's.
verify_save(p, d, disk_ok) ==
  /\ NodeIdle
  /\ verify_holding[<<p, d>>] > 0
  /\ verify_holding' = [verify_holding EXCEPT ![<<p, d>>] = @ - 1]
  /\ IF IndexError(p) \/ ~hash_matches(p, d)
     THEN UNCHANGED <<file, writes, completed_pieces, accepted>>
     ELSE /\ IF write_succeeds(p) /\ disk_ok
             THEN /\ file' = [file EXCEPT ![p] = d]
                  /\ writes' = [writes EXCEPT ![p] = @ + 1]
             ELSE UNCHANGED <<file, writes>>
          /\ completed_pieces' = completed_pieces \cup {p}
          /\ accepted' = [accepted EXCEPT ![p] = @ \cup {d}]
  /\ UNCHANGED <<in_progress_pieces, pending_verification, verify_spawned, now>>
  /\ lastCall' = NoCall
  /\ UNCHANGED <<nsubmits, submit_ok>>

(***************************************************************************)
(* PieceManager.check_timeouts                                             *)
(***************************************************************************)
timed_out_pieces(timeout_secs) ==
  {p \in DOMAIN in_progress_pieces : now - in_progress_pieces[p] > timeout_secs}

check_timeouts_store(timeout_secs) ==
  in_progress_pieces' =
    [p \in (DOMAIN in_progress_pieces) \ timed_out_pieces(timeout_secs) |-> in_progress_pieces[p]]

check_timeouts ==
  /\ NodeIdle
  /\ timed_out_pieces(RequestTimeout) # {}
  /\ check_timeouts_store(RequestTimeout)
  /\ lastCall' = NoCall
  /\ UNCHANGED <<completed_pieces, pending_verification, verify_spawned, verify_holding, file, now>>
  /\ UNCHANGED <<nsubmits, submit_ok, writes, accepted>>

\* a caller asks is_complete()
is_complete_call ==
  /\ NodeIdle
  /\ lastCall' = CallRecord("is_complete", 0, is_complete)
  /\ UNCHANGED storeVars
  /\ UNCHANGED <<nsubmits, submit_ok, writes, accepted>>

\* the clock advances
Tick ==
  /\ NodeIdle
  /\ now < MaxTime
  /\ now' = now + 1
  /\ UNCHANGED <<completed_pieces, in_progress_pieces, pending_verification, verify_spawned, verify_holding, file>>
  /\ lastCall' = NoCall
  /\ UNCHANGED <<nsubmits, submit_ok, writes, accepted>>

NextStore ==
  \/ \E p \in AnyIds : mark_piece_in_progress(p)
  \/ \E p \in AnyIds, d \in DataVals : receive_piece(p, d)
  \/ \E p \in AnyIds : verify_take(p)
  \/ \E p \in AnyIds, d \in DataVals, disk_ok \in BOOLEAN : verify_save(p, d, disk_ok)
  \/ check_timeouts
  \/ is_complete_call
  \/ Tick

\* a leecher's node and store as run_leecher sets them up
Init == InitStore /\ InitObs /\ InitNode({}, "peer_discovery") /\ InitLink /\ InitCall /\ InitLeecher

SpecStore == Init /\ [][NextStore]_vars

(***************************************************************************)
(* Node: frames, connections and upload statistics                         *)
(***************************************************************************)
\* a frame handed to SocketWrapper.send of the connection to `to`
Frame(to, type, p, d, ps) ==
  [to |-> to, type |-> type, piece_id |-> p, data |-> d, pieces |-> ps]

\* MessageFactory.choke / MessageFactory.unchoke
ControlFrame(to, type) == Frame(to, type, 0, <<>>, {})

\* MessageFactory.piece_request
piece_request(to, p) == Frame(to, "piece_request", p, <<>>, {})

\* MessageFactory.request_piece, the name _send_piece_request calls: the
\* piece_request{id} frame the request pump issues
request_piece(to, p) == Frame(to, "piece_request", p, <<>>, {})

\* MessageFactory.piece_response
piece_response(to, p, d) == Frame(to, "piece_response", p, d, {})

\* MessageFactory.update_pieces
update_pieces(ps) == Frame(Tracker, "update_pieces", 0, <<>>, ps)

\* MessageFactory.register
register == Frame(Tracker, "peer_joined", 0, <<>>, {})

\* a step of the node alone: the store stays
StoreStill ==
  /\ UNCHANGED storeVars
  /\ UNCHANGED <<nsubmits, submit_ok, writes, accepted>>
  /\ lastCall' = NoCall

StoreIdle == StoreStill /\ UNCHANGED linkVars

\* the last choke / unchoke frame of each peer once `frames` are enqueued
control_after(frames) ==
  [x \in Peers |->
     IF ControlFrame(x, "choke") \in frames THEN "choke"
     ELSE IF ControlFrame(x, "unchoke") \in frames THEN "unchoke"
     ELSE last_control[x]]

\* _accept_connections / _connect_to_peer: the connection is started and
\* entered in peer_connections
accept_connection(x) ==
  /\ x \notin peer_connections
  /\ peer_connections' = peer_connections \cup {x}
  /\ sent_now' = {}
  /\ StoreIdle
  /\ UNCHANGED chokeVars
  /\ UNCHANGED <<peer_pieces, available_pieces, my_pieces, pending_requests, request_queue,
                 node_state, tracker_connection, downloaded_pieces, handler, last_control>>

\* a rate bytes / time_diff, kept as the pair
Rate(bytes, time_diff) == IF bytes = 0 THEN <<0, 1>> ELSE <<bytes, time_diff>>
RateGreater(a, b) == a[1] * b[2] > b[1] * a[2]

\* UploadSlotManager.update_peer_stats, lines 116-123: the entry of a new peer
NewPeerStats ==
  [upload_total |-> 0, download_total |-> 0, upload_rate |-> Rate(0, 1),
   download_rate |-> Rate(0, 1), last_updated |-> now]

\* UploadSlotManager.update_peer_stats: peer_stats after the call
stats_after(x, bytes_downloaded, bytes_uploaded) ==
  LET stats == IF x \in DOMAIN peer_stats THEN peer_stats[x] ELSE NewPeerStats
      time_diff == now - stats.last_updated
  IN Put(peer_stats, x,
         [upload_total |-> stats.upload_total + bytes_uploaded,
          download_total |-> stats.download_total + bytes_downloaded,
          upload_rate |-> IF time_diff > 0 THEN Rate(bytes_uploaded, time_diff)
                          ELSE stats.upload_rate,
          download_rate |-> IF time_diff > 0 THEN Rate(bytes_downloaded, time_diff)
                            ELSE stats.download_rate,
          last_updated |-> now])

\* insertion order of the peer_stats dictionary after the call
order_after(x) == IF x \in DOMAIN peer_stats THEN stats_order ELSE Append(stats_order, x)

\* the first statistics entry of a connected peer, made through the
\* UploadSlotManager of the node
register_peer_stats(x) ==
  /\ x \in peer_connections
  /\ x \notin DOMAIN peer_stats
  /\ peer_stats' = stats_after(x, 0, 0)
  /\ stats_order' = order_after(x)
  /\ sent_now' = {}
  /\ StoreIdle
  /\ UNCHANGED <<unchoked_peers, choked_peers, optimistic_unchoked, last_rotation>>
  /\ UNCHANGED nodeRest

(***************************************************************************)
(* OptimisticUnchokeStrategy.select_unchoked_peers                         *)
(***************************************************************************)
\* line 34: not self.optimistic_unchoked or the rotation interval has passed
rotation_due == optimistic_unchoked = NoPeer \/ now - last_rotation > RotationInterval

\* lines 35-38: random.choice over the keys of peer_stats when a rotation is due
optimistic_choices ==
  IF rotation_due /\ DOMAIN peer_stats # {} THEN DOMAIN peer_stats ELSE {optimistic_unchoked}

rotated == rotation_due /\ DOMAIN peer_stats # {}

Position(x) == CHOOSE i \in 1..Len(stats_order) : stats_order[i] = x

\* lines 41-45: sorted(..., key=download_rate, reverse=True) is stable
SortsBefore(a, b) ==
  \/ RateGreater(peer_stats[a].download_rate, peer_stats[b].download_rate)
  \/ /\ peer_stats[a].download_rate = peer_stats[b].download_rate
     /\ Position(a) < Position(b)

\* lines 47-69 with the optimistic peer opt: opt, then the top of the order
\* while slots remain
select_unchoked_peers(opt) ==
  LET first == IF opt # NoPeer /\ opt \in DOMAIN peer_stats THEN {opt} ELSE {}
      remaining_slots == max_unchoked - Cardinality(first)
      others == (DOMAIN peer_stats) \ first
  IN first \cup {y \in others :
                   Cardinality({z \in others : SortsBefore(z, y)}) < remaining_slots}

\* UploadSlotManager.get_unchoked_peers returning U, with the strategy's
\* own fields updated
get_unchoked_peers(U) ==
  \E opt \in optimistic_choices :
    /\ U = select_unchoked_peers(opt)
    /\ optimistic_unchoked' = opt
    /\ last_rotation' = IF rotated THEN now ELSE last_rotation

(***************************************************************************)
(* Node.update_choking (public, no lock)                                   *)
(***************************************************************************)
update_choking ==
  \E U \in SUBSET Peers :
    /\ get_unchoked_peers(U)
    /\ LET new_unchoked == U \ unchoked_peers
           new_choked == unchoked_peers \ U
           frames == {ControlFrame(x, "unchoke") : x \in new_unchoked \cap peer_connections}
                       \cup {ControlFrame(x, "choke") : x \in new_choked \cap peer_connections}
       IN /\ sent_now' = frames
          /\ last_control' = control_after(frames)
    /\ unchoked_peers' = U
    /\ choked_peers' = peer_connections \ U
    /\ StoreIdle
    /\ UNCHANGED <<peer_stats, stats_order>>
    /\ UNCHANGED <<peer_connections, peer_pieces, available_pieces, my_pieces, pending_requests,
                   request_queue, node_state, tracker_connection, downloaded_pieces, handler>>

(***************************************************************************)
(* Node._update_choking_state (choke thread, under the node lock)          *)
(***************************************************************************)
\* The unchoke loop sends the frame and then calls choked_peers.remove(peer),
\* which raises KeyError for a peer that is not in choked_peers: the loop
\* ends there, after the peers `done` that came before it in the iteration.
update_choking_state ==
  \E U \in SUBSET Peers :
    /\ get_unchoked_peers(U)
    /\ LET to_choke == (unchoked_peers \ U) \cap peer_connections
           to_unchoke == (U \ unchoked_peers) \cap peer_connections
           removable == to_unchoke \cap choked_peers
           raising == to_unchoke \ removable
       IN \E done \in SUBSET removable, failed \in SUBSET raising :
            /\ IF raising = {} THEN done = removable /\ failed = {}
               ELSE Cardinality(failed) = 1
            /\ LET frames == {ControlFrame(x, "choke") : x \in to_choke}
                               \cup {ControlFrame(x, "unchoke") : x \in done \cup failed}
               IN /\ sent_now' = frames
                  /\ last_control' = control_after(frames)
            /\ unchoked_peers' = (unchoked_peers \ to_choke) \cup done
            /\ choked_peers' = (choked_peers \cup to_choke) \ done
    /\ StoreIdle
    /\ UNCHANGED <<peer_stats, stats_order>>
    /\ UNCHANGED <<peer_connections, peer_pieces, available_pieces, my_pieces, pending_requests,
                   request_queue, node_state, tracker_connection, downloaded_pieces, handler>>

(***************************************************************************)
(* Node._handle_peer_message, piece_request branch, and Node._send_piece   *)
(***************************************************************************)
\* ids a peer may ask for: the pieces and one id past them
RequestIds == 0..total_pieces

uploaded_to(x) == IF x \in DOMAIN peer_stats THEN peer_stats[x].upload_total ELSE 0

\* the receive thread of the connection to x delivers piece_request{id}
receive_piece_request(x, id) ==
  /\ x \in peer_connections
  /\ handler[x].pc = "idle"
  /\ uploaded_to(x) < MaxUpload
  /\ handler' = [handler EXCEPT ![x] =
       [pc |-> "dispatch", type |-> "piece_request", piece_id |-> id, data |-> <<>>,
        peer |-> NoPeer]]
  /\ sent_now' = {}
  /\ StoreIdle
  /\ UNCHANGED chokeVars
  /\ UNCHANGED <<peer_connections, peer_pieces, available_pieces, my_pieces, pending_requests,
                 request_queue, node_state, tracker_connection, downloaded_pieces, last_control>>

\* the test of every request, without the unchoked set
serves_any_peer(piece_id, address) == piece_id \in my_pieces

\* line 519: piece_id in self.my_pieces and address in self.unchoked_peers
serves(piece_id, address) == piece_id \in my_pieces /\ address \in unchoked_peers

\* lines 515-524: the test, read without the lock
dispatch_piece_request(x) ==
  /\ handler[x].pc = "dispatch"
  /\ handler[x].type = "piece_request"
  /\ handler' = [handler EXCEPT ![x] =
       IF serves(handler[x].piece_id, x) THEN [@ EXCEPT !.pc = "send_piece"] ELSE IdleHandler]
  /\ sent_now' = {}
  /\ StoreIdle
  /\ UNCHANGED chokeVars
  /\ UNCHANGED <<peer_connections, peer_pieces, available_pieces, my_pieces, pending_requests,
                 request_queue, node_state, tracker_connection, downloaded_pieces, last_control>>

\* PieceManager.get_piece_data: the bytes of the piece in the backing file,
\* nothing for an id the file has no piece for
get_piece_data(p) == IF p \in DOMAIN file THEN file[p] ELSE <<>>

\* Node._send_piece
send_piece(x) ==
  /\ handler[x].pc = "send_piece"
  /\ handler' = [handler EXCEPT ![x] = IdleHandler]
  /\ LET piece_id == handler[x].piece_id
         data == get_piece_data(piece_id)
     IN IF x \in peer_connections /\ data # <<>>
        THEN /\ sent_now' = {piece_response(x, piece_id, data)}
             /\ peer_stats' = stats_after(x, 0, Len(data))
             /\ stats_order' = order_after(x)
        ELSE /\ sent_now' = {}
             /\ UNCHANGED <<peer_stats, stats_order>>
  /\ StoreIdle
  /\ UNCHANGED <<unchoked_peers, choked_peers, optimistic_unchoked, last_rotation>>
  /\ UNCHANGED <<peer_connections, peer_pieces, available_pieces, my_pieces, pending_requests,
                 request_queue, node_state, tracker_connection, downloaded_pieces, last_control>>

NextServe ==
  \/ \E x \in Peers : accept_connection(x)
  \/ \E x \in Peers : register_peer_stats(x)
  \/ update_choking
  \/ update_choking_state
  \/ \E x \in Peers, id \in RequestIds : receive_piece_request(x, id)
  \/ \E x \in Peers : dispatch_piece_request(x)
  \/ \E x \in Peers : send_piece(x)
  \/ Tick

\* run_seeder: my_pieces holds every piece id
InitServe == InitStore /\ InitObs /\ InitNode(PieceIds, "seeding") /\ InitLink /\ InitCall /\ InitLeecher

SpecServe == InitServe /\ [][NextServe]_vars

(***************************************************************************)
(* Node: tracker link and swarm view                                       *)
(***************************************************************************)
\* Node.connect_to_tracker, the connect succeeding
connect_to_tracker ==
  /\ ~tracker_connection
  /\ tracker_connection' = TRUE
  /\ sent_now' = {register}
  /\ StoreIdle
  /\ UNCHANGED chokeVars
  /\ UNCHANGED <<peer_connections, peer_pieces, available_pieces, my_pieces, pending_requests,
                 request_queue, node_state, downloaded_pieces, handler, last_control>>

\* peer_list payloads of the tracker: who holds which pieces
SeederList == [x \in {"p1"} |-> PieceIds]

PeerLists ==
  {[x \in Peers |-> IF x = "p1" THEN PieceIds ELSE {total_pieces - 1}]}

\* Node._handle_tracker_message: _update_peer_connections (each dial may
\* fail), then _update_piece_availability
handle_peer_list(peers) ==
  /\ tracker_connection
  /\ Tracker \notin dead_connections
  /\ \E connected \in SUBSET (((DOMAIN peers) \ {Self}) \ peer_connections) :
       peer_connections' = peer_connections \cup connected
  /\ peer_pieces' = [x \in (DOMAIN peer_pieces) \cup ((DOMAIN peers) \ {Self}) |->
                       IF x \in DOMAIN peers THEN peers[x] ELSE peer_pieces[x]]
  /\ piece_availability' =
       [i \in DOMAIN piece_availability |->
          Cardinality({x \in (DOMAIN peers) \ {Self} : i \in peers[x]})]
  /\ available_pieces' = (DOMAIN piece_availability) \ my_pieces
  /\ sent_now' = {}
  /\ StoreStill
  /\ UNCHANGED <<last_received, dead_connections, connVars, trackerVars, dialVars, callVars, stateVars>>
  /\ UNCHANGED chokeVars
  /\ UNCHANGED <<my_pieces, pending_requests, request_queue, node_state, tracker_connection,
                 downloaded_pieces, handler, last_control>>

(***************************************************************************)
(* Piece selection (PieceSelectionManager and its two strategies)          *)
(***************************************************************************)
\* the manager's own in_progress_pieces: update_piece_progress is only
\* called with progress 1.0, which never adds an entry
selection_in_progress == {}

available_slots == IF max_pipeline_depth - Cardinality(selection_in_progress) > 0
                   THEN max_pipeline_depth - Cardinality(selection_in_progress) ELSE 0

Availability(p) == Cardinality({x \in DOMAIN peer_pieces : p \in peer_pieces[x]})

\* RarestFirstStrategy: the first available_slots of the needed pieces in
\* stable order of availability
rarest_first(needed) ==
  LET cand == needed \ selection_in_progress
      Ahead(q, p) == Availability(q) < Availability(p)
                       \/ (Availability(q) = Availability(p) /\ q < p)
  IN {{p \in cand : Cardinality({q \in cand : Ahead(q, p)}) < available_slots}}

\* RandomFirstPiecesStrategy: random.sample of the candidates
random_first(needed) ==
  LET cand == {p \in needed :
                 (\E x \in DOMAIN peer_pieces : p \in peer_pieces[x])
                 /\ p \notin selection_in_progress}
  IN {S \in SUBSET cand : Cardinality(S) = Min(available_slots, Cardinality(cand))}

\* PieceSelectionManager.select_next_piece (download_pieces calls it as
\* select_next_pieces): the selections the active strategy may return
select_next_pieces(needed) ==
  IF downloaded_pieces >= threshold THEN rarest_first(needed) ELSE random_first(needed)

\* Node._select_peer_for_piece: the peers random.choice draws from
suitable_peers(p) ==
  {x \in DOMAIN peer_pieces :
     p \in peer_pieces[x] /\ x \in peer_connections /\ x \in unchoked_peers}

\* pending_requests[piece_id] = {'peer': ..., 'timestamp': time.time()}
RequestEntry(x) == [peer |-> x, timestamp |-> now]

(***************************************************************************)
(* Node.download_pieces with Node._request_piece_from_peer                 *)
(***************************************************************************)
download_pieces ==
  /\ available_pieces # {}
  /\ get_needed_pieces # {}
  /\ \E pieces_to_request \in select_next_pieces(get_needed_pieces) :
       LET requested == {p \in pieces_to_request : suitable_peers(p) # {}}
       IN \E peer \in [requested -> Peers] :
            /\ \A p \in requested : peer[p] \in suitable_peers(p)
            /\ sent_now' = {piece_request(peer[p], p) : p \in requested}
            /\ pending_requests' =
                 [p \in (DOMAIN pending_requests) \cup requested |->
                    IF p \in requested THEN RequestEntry(peer[p]) ELSE pending_requests[p]]
  /\ StoreIdle
  /\ UNCHANGED chokeVars
  /\ UNCHANGED <<peer_connections, peer_pieces, available_pieces, my_pieces, request_queue,
                 node_state, tracker_connection, downloaded_pieces, handler, last_control>>

(***************************************************************************)
(* The request queue: queue_piece_request, the pump, the timeout sweep     *)
(***************************************************************************)
\* order of the PriorityQueue on (priority, piece_id) tuples
EntryLess(a, b) == a[1] < b[1] \/ (a[1] = b[1] /\ a[2] < b[2])

RECURSIVE queue_put(_, _)
queue_put(q, e) ==
  IF q = <<>> THEN <<e>>
  ELSE IF EntryLess(e, Head(q)) THEN <<e>> \o q
  ELSE <<Head(q)>> \o queue_put(Tail(q), e)

RECURSIVE queue_put_all(_, _, _)
queue_put_all(q, S, priority) ==
  IF S = {} THEN q
  ELSE LET p == CHOOSE p \in S : \A r \in S : p <= r
       IN queue_put_all(queue_put(q, <<priority, p>>), S \ {p}, priority)

\* Node._queue_piece_request returning True
queue_piece_request(p) ==
  /\ Len(request_queue) < MaxQueue
  /\ p \notin my_pieces
  /\ p \notin DOMAIN pending_requests
  /\ mark_result(p)
  /\ in_progress_pieces' = Put(in_progress_pieces, p, now)
  /\ request_queue' = queue_put(request_queue, <<now, p>>)
  /\ sent_now' = {}
  /\ lastCall' = NoCall
  /\ UNCHANGED <<completed_pieces, pending_verification, verify_spawned, verify_holding, file, now>>
  /\ UNCHANGED <<nsubmits, submit_ok, writes, accepted>>
  /\ UNCHANGED chokeVars
  /\ UNCHANGED linkVars
  /\ UNCHANGED <<peer_connections, peer_pieces, available_pieces, my_pieces, pending_requests,
                 node_state, tracker_connection, downloaded_pieces, handler, last_control>>

\* the lowest priority value the timeout sweep gives at time 0
RequeueFloor == 0 - REQUEUE_PRIORITY_BOOST * 10

\* one round of Node._process_request_queue, with Node._send_piece_request
process_request_queue ==
  /\ Cardinality(DOMAIN pending_requests) < max_parallel_requests
  /\ request_queue # <<>>
  /\ LET priority == Head(request_queue)[1]
         piece_id == Head(request_queue)[2]
     IN IF suitable_peers(piece_id) = {}
        THEN /\ priority < RequeueFloor + MaxRequeues * REQUEUE_PRIORITY_BOOST
             /\ request_queue' =
                  queue_put(Tail(request_queue), <<priority + REQUEUE_PRIORITY_BOOST, piece_id>>)
             /\ sent_now' = {}
             /\ UNCHANGED pending_requests
        ELSE \E peer \in suitable_peers(piece_id) :
               /\ request_queue' = Tail(request_queue)
               /\ sent_now' = {request_piece(peer, piece_id)}
               /\ pending_requests' = Put(pending_requests, piece_id, RequestEntry(peer))
  /\ StoreIdle
  /\ UNCHANGED chokeVars
  /\ UNCHANGED <<peer_connections, peer_pieces, available_pieces, my_pieces, node_state,
                 tracker_connection, downloaded_pieces, handler, last_control>>

timed_out_requests ==
  {p \in DOMAIN pending_requests : now - pending_requests[p].timestamp > RequestTimeout}

\* one round of Node._check_request_timeouts
check_request_timeouts ==
  /\ timed_out_pieces(RequestTimeout) \cup timed_out_requests # {}
  /\ Len(request_queue) + Cardinality(timed_out_pieces(RequestTimeout))
       + Cardinality(timed_out_requests) <= MaxQueue
  /\ check_timeouts_store(RequestTimeout)
  /\ pending_requests' =
       [p \in (DOMAIN pending_requests) \ timed_out_requests |-> pending_requests[p]]
  /\ LET priority == now - REQUEUE_PRIORITY_BOOST * 10
     IN request_queue' =
          queue_put_all(queue_put_all(request_queue, timed_out_pieces(RequestTimeout), priority),
                        timed_out_requests, priority)
  /\ sent_now' = {}
  /\ lastCall' = NoCall
  /\ UNCHANGED <<completed_pieces, pending_verification, verify_spawned, verify_holding, file, now>>
  /\ UNCHANGED <<nsubmits, submit_ok, writes, accepted>>
  /\ UNCHANGED chokeVars
  /\ UNCHANGED linkVars
  /\ UNCHANGED <<peer_connections, peer_pieces, available_pieces, my_pieces, node_state,
                 tracker_connection, downloaded_pieces, handler, last_control>>

(***************************************************************************)
(* Node._handle_peer_message, piece_response branch, and                   *)
(* Node._handle_piece_received                                             *)
(***************************************************************************)
\* what a peer may answer a request for piece id with: its bytes, or bytes
\* that do not hash to its hash
ResponseData(id) == {PieceData(id), <<0, 0>>}

\* responses delivered and not yet handed to the store
responses_in_flight ==
  Cardinality({t \in Threads : handler[t].pc \in {"dispatch", "received"}
                                 /\ handler[t].type = "piece_response"})

\* the receive thread of the connection to x delivers piece_response{id, data},
\* one of at most limit responses
receive_response_within(limit, x, id, d) ==
  /\ x \in peer_connections
  /\ handler[x].pc = "idle"
  /\ nsubmits + responses_in_flight < limit
  /\ handler' = [handler EXCEPT ![x] =
       [pc |-> "dispatch", type |-> "piece_response", piece_id |-> id, data |-> d,
        peer |-> NoPeer]]
  /\ sent_now' = {}
  /\ StoreIdle
  /\ UNCHANGED chokeVars
  /\ UNCHANGED <<peer_connections, peer_pieces, available_pieces, my_pieces, pending_requests,
                 request_queue, node_state, tracker_connection, downloaded_pieces, last_control>>

receive_piece_response(x, id, d) == receive_response_within(MaxSubmits, x, id, d)

\* line 532: if piece_id and data_hex and piece_id in self.pending_requests
\* (a piece_id of 0 and an empty hex string are false), read without the lock
accepts_response(piece_id, d) ==
  piece_id # 0 /\ d # <<>> /\ piece_id \in DOMAIN pending_requests

dispatch_piece_response(x) ==
  /\ handler[x].pc = "dispatch"
  /\ handler[x].type = "piece_response"
  /\ handler' = [handler EXCEPT ![x] =
       IF accepts_response(handler[x].piece_id, handler[x].data)
       THEN [@ EXCEPT !.pc = "received"] ELSE IdleHandler]
  /\ sent_now' = {}
  /\ StoreIdle
  /\ UNCHANGED chokeVars
  /\ UNCHANGED <<peer_connections, peer_pieces, available_pieces, my_pieces, pending_requests,
                 request_queue, node_state, tracker_connection, downloaded_pieces, last_control>>

\* lines 451-458: pop the pending entry under the lock, then receive_piece;
\* the handler goes on to the statistics when receive_piece returned True
\* and the entry named a peer
piece_received_within(limit, t, piece_id, data) ==
  LET peer_address == IF piece_id \in DOMAIN pending_requests
                      THEN pending_requests[piece_id].peer ELSE NoPeer
  IN /\ pending_requests' = Del(pending_requests, piece_id)
     /\ receive_piece_store_within(limit, piece_id, data)
     /\ handler' = [handler EXCEPT ![t] =
          IF receive_result(piece_id, data) /\ peer_address # NoPeer
          THEN [pc |-> "credit", type |-> "piece_response", piece_id |-> piece_id,
                data |-> data, peer |-> peer_address]
          ELSE IdleHandler]
     /\ lastCall' = NoCall
     /\ sent_now' = {}
     /\ UNCHANGED chokeVars
     /\ UNCHANGED linkVars
     /\ UNCHANGED <<peer_connections, peer_pieces, available_pieces, my_pieces, request_queue,
                    node_state, tracker_connection, downloaded_pieces, last_control>>

piece_received(t, piece_id, data) == piece_received_within(MaxSubmits, t, piece_id, data)

\* _handle_piece_received on the receive thread of the connection to x
handle_piece_received_within(limit, x) ==
  /\ handler[x].pc = "received"
  /\ piece_received_within(limit, x, handler[x].piece_id, handler[x].data)

handle_piece_received(x) == handle_piece_received_within(MaxSubmits, x)

\* _handle_piece_received called by the owner of the node, not by a
\* receive thread
call_handle_piece_received(id, d) ==
  /\ handler[Driver].pc = "idle"
  /\ nsubmits + responses_in_flight < MaxSubmits
  /\ piece_received(Driver, id, d)

\* lines 461-481: statistics, my_pieces, update_pieces to the tracker,
\* update_piece_progress(piece_id, 1.0) of the installed selection manager,
\* the completion test
credit_piece(t) ==
  /\ handler[t].pc = "credit"
  /\ peer_stats' = stats_after(handler[t].peer, Len(handler[t].data), 0)
  /\ stats_order' = order_after(handler[t].peer)
  /\ my_pieces' = my_pieces \cup {handler[t].piece_id}
  /\ sent_now' = IF tracker_connection THEN {update_pieces(my_pieces')} ELSE {}
  /\ downloaded_pieces' = downloaded_pieces + 1
  /\ node_state' = IF is_complete THEN "seeding" ELSE node_state
  /\ handler' = [handler EXCEPT ![t] = IdleHandler]
  /\ StoreIdle
  /\ UNCHANGED <<unchoked_peers, choked_peers, optimistic_unchoked, last_rotation>>
  /\ UNCHANGED <<peer_connections, peer_pieces, available_pieces, pending_requests,
                 request_queue, tracker_connection, last_control>>

\* the downloading node at one instant of the clock: swarm view, choking,
\* download_pieces, the receive threads and the verify threads
Next ==
  \/ connect_to_tracker
  \/ \E peers \in PeerLists : handle_peer_list(peers)
  \/ \E x \in Peers : register_peer_stats(x)
  \/ update_choking
  \/ update_choking_state
  \/ download_pieces
  \/ \E x \in Peers, id \in PieceIds : \E d \in ResponseData(id) : receive_piece_response(x, id, d)
  \/ \E x \in Peers : dispatch_piece_response(x)
  \/ \E id \in PieceIds : \E d \in ResponseData(id) : call_handle_piece_received(id, d)
  \/ \E x \in Peers : handle_piece_received(x)
  \/ \E t \in Threads : credit_piece(t)
  \/ \E p \in PieceIds : verify_take(p)
  \/ \E p \in PieceIds, d \in DataVals : verify_save(p, d, TRUE)

\* run_leecher: my_pieces is empty, the node starts in peer discovery
Spec == Init /\ [][Next]_vars

\* the request queue of the downloading node over time: entries queued by
\* the owner, the pump, the timeout sweep, pieces handed in by the owner
NextPump ==
  \/ connect_to_tracker
  \/ handle_peer_list(SeederList)
  \/ \E x \in Peers : register_peer_stats(x)
  \/ update_choking
  \/ \E p \in PieceIds : queue_piece_request(p)
  \/ process_request_queue
  \/ check_request_timeouts
  \/ \E id \in PieceIds : call_handle_piece_received(id, PieceData(id))
  \/ credit_piece(Driver)
  \/ \E p \in PieceIds : verify_take(p)
  \/ \E p \in PieceIds, d \in DataVals : verify_save(p, d, TRUE)
  \/ Tick

SpecPump == Init /\ [][NextPump]_vars

(***************************************************************************)
(* Piece states of the specification, read off the store's containers      *)
(***************************************************************************)
InFlight(p) == p \in DOMAIN in_progress_pieces
PendingVerify(p) ==
  \/ p \in DOMAIN pending_verification
  \/ \E d \in DataVals : verify_holding[<<p, d>>] > 0
Complete(p) == p \in completed_pieces
Missing(p) == ~InFlight(p) /\ ~PendingVerify(p) /\ ~Complete(p)

(***************************************************************************)
(* C1: mark_piece_in_progress(p) returns true if and only if p is Missing  *)
(* (not in flight, not pending verification, not Complete), and on true p  *)
(* becomes in flight.                                                      *)
(***************************************************************************)
C1_ClaimIffMissing ==
  [][lastCall'.op = "mark" =>
       /\ lastCall'.ret <=> Missing(lastCall'.id)
       /\ lastCall'.ret => lastCall'.id \in DOMAIN in_progress_pieces']_vars

(***************************************************************************)
(* C2: for every piece id at most one receive_piece call is reported       *)
(* successful and the piece's bytes are written to the file at most once.  *)
(***************************************************************************)
C2_AtMostOneSuccess ==
  \A p \in AnyIds : submit_ok[p] <= 1 /\ writes[p] <= 1

LastNotComplete(p) == p \in PieceIds /\ PieceIds \ completed_pieces = {p}

C9_CompleteAfterSuccess ==
  [][(/\ lastCall.op = "receive" /\ lastCall.ret
      /\ LastNotComplete(lastCall.id)
      /\ lastCall'.op = "is_complete") => lastCall'.ret]_vars

(***************************************************************************)
(* C4: completed_pieces is a subset of 0..N-1, and is_complete() is true   *)
(* if and only if all N pieces are Complete.                               *)
(***************************************************************************)
C4_CompletedInRange ==
  /\ completed_pieces \subseteq PieceIds
  /\ is_complete <=> (\A i \in PieceIds : i \in completed_pieces)

(***************************************************************************)
(* C6: on a piece_request{id} from peer X the node enqueues a              *)
(* piece_response{id} to X if and only if id is in my_pieces and X is in   *)
(* unchoked_peers when the request is handled; otherwise no frame goes to  *)
(* X.                                                                      *)
(***************************************************************************)
ResponseTo(frames, x, p) ==
  \E f \in frames : f.to = x /\ f.type = "piece_response" /\ f.piece_id = p

C7_NoResponseAfterChoke ==
  [][\A x \in Peers :
       (\E f \in sent_now' : f.to = x /\ f.type = "piece_response")
         => last_control[x] # "choke"]_vars

(***************************************************************************)
(* C5: when the data of a piece_response for a pending piece does not      *)
(* verify, handling it leaves my_pieces, the sender's statistics and the   *)
(* selection manager's counter as they were and sends no update_pieces to  *)
(* the tracker.                                                            *)
(***************************************************************************)
C5_FailedResponseNotCredited ==
  [][\A t \in Threads :
       (/\ handler[t].pc = "credit"
        /\ handler'[t].pc = "idle"
        /\ ~hash_matches(handler[t].piece_id, handler[t].data))
       => /\ my_pieces' = my_pieces
          /\ peer_stats' = peer_stats
          /\ downloaded_pieces' = downloaded_pieces
          /\ ~\E f \in sent_now' : f.type = "update_pieces"]_vars

(***************************************************************************)
(* C8: a receive thread hands the data of a piece_response to the store    *)
(* only when the piece id is in pending_requests as it removes the entry:  *)
(* of two responses for one id handled at once on two connections, only    *)
(* the one that removed the entry reaches the store.                       *)
(***************************************************************************)
C8_OnlyPendingReachesStore ==
  [][\A x \in Peers :
       (/\ handler[x].pc = "received"
        /\ handler'[x].pc # "received"
        /\ nsubmits' = nsubmits + 1)
       => handler[x].piece_id \in DOMAIN pending_requests]_vars

(***************************************************************************)
(* C10: once the store is complete the node enqueues no piece_request,     *)
(* whatever the request queue holds or the timeout sweep puts back.        *)
(***************************************************************************)
C10_NoRequestOnceComplete ==
  [][is_complete => ~\E f \in sent_now' : f.type = "piece_request"]_vars

(***************************************************************************)
(* C11: the node is in the Seeding state if and only if all N pieces are   *)
(* Complete in its piece store: Seeding is not entered while a piece is    *)
(* missing, and a node whose store is complete is not left in a leecher    *)
(* state.                                                                  *)
(***************************************************************************)
C11_SeedingIffComplete ==
  (node_state = "seeding") <=> (\A p \in PieceIds : Complete(p))

(***************************************************************************)
(* C12: after each run of the choke recomputation unchoked_peers equals    *)
(* the newly computed set Ustar; the run sends a choke frame to exactly    *)
(* the peers that were unchoked and are not in Ustar, and an unchoke frame *)
(* to exactly the peers of Ustar that were not unchoked, whether or not a  *)
(* peer was recorded in choked_peers.                                      *)
(***************************************************************************)
C12_ChokeRecompute ==
  [][(update_choking_state \/ update_choking) =>
       LET Ustar == select_unchoked_peers(optimistic_unchoked')
       IN /\ unchoked_peers' = Ustar
          /\ sent_now' = {ControlFrame(x, "choke") : x \in unchoked_peers \ Ustar}
                           \cup {ControlFrame(x, "unchoke") : x \in Ustar \ unchoked_peers}]_vars

(***************************************************************************)
(* Node._handle_peer_message for a choke or unchoke frame from a peer      *)
(***************************************************************************)
ControlTypes == {"choke", "unchoke"}

\* lines 511-563: no branch names "choke" or "unchoke", the frame reaches
\* the final else, which logs "Unhandled message type"
handle_control_frame(x, type) ==
  /\ x \in peer_connections
  /\ x \notin dead_connections
  /\ handler[x].pc = "idle"
  /\ last_received[x] # type
  /\ last_received' = [last_received EXCEPT ![x] = type]
  /\ UNCHANGED <<dead_connections, connVars, trackerVars, swarmVars, dialVars, callVars, stateVars>>
  /\ StoreStill
  /\ NodeStill

\* The connection to x ends: recv returns no data or raises in
\* SocketWrapper._read_loop, or sendall raises in _write_loop, which runs
\* _cleanup.  Neither loop calls back into the node.
connection_lost(x) ==
  /\ x \in peer_connections
  /\ x \notin dead_connections
  /\ dead_connections' = dead_connections \cup {x}
  /\ UNCHANGED <<last_received, connVars, trackerVars, swarmVars, dialVars, callVars, stateVars>>
  /\ StoreStill
  /\ NodeStill

\* The link to the tracker ends in the same way; tracker_connection keeps
\* the SocketWrapper.
tracker_connection_lost ==
  /\ tracker_connection
  /\ Tracker \notin dead_connections
  /\ dead_connections' = dead_connections \cup {Tracker}
  /\ UNCHANGED <<last_received, connVars, trackerVars, swarmVars, dialVars, callVars, stateVars>>
  /\ StoreStill
  /\ NodeStill

\* One round of Node._tracker_heartbeat.  SocketWrapper.send only puts the
\* frame on the write queue of the handler and cannot raise, so the except
\* branch with _handle_tracker_disconnection is never taken, whether the
\* socket is alive or not.
tracker_heartbeat ==
  /\ tracker_connection
  /\ sent_now' = {update_pieces(my_pieces)}
  /\ StoreIdle
  /\ UNCHANGED <<chokeVars, nodeRest>>

\* the downloading node and the control frames of its peers: swarm view,
\* choking, download_pieces, the request queue and its pump
NextPeer ==
  \/ connect_to_tracker
  \/ \E peers \in PeerLists : handle_peer_list(peers)
  \/ \E x \in Peers : register_peer_stats(x)
  \/ update_choking
  \/ download_pieces
  \/ \E p \in PieceIds : queue_piece_request(p)
  \/ process_request_queue
  \/ \E x \in Peers, type \in ControlTypes : handle_control_frame(x, type)
  \/ \E x \in Peers : connection_lost(x)
  \/ tracker_connection_lost
  \/ tracker_heartbeat

SpecPeer == Init /\ [][NextPeer]_vars

\* the pending requests assigned to peer x
pending_to(x) == {p \in DOMAIN pending_requests : pending_requests[p].peer = x}

queued_pieces(q) == {q[i][2] : i \in 1..Len(q)}

(***************************************************************************)
(* C13: when a choke frame from peer X is handled, every pending request   *)
(* assigned to X is removed from pending_requests and put back into the    *)
(* request queue; no piece_request is sent to X from then until an unchoke *)
(* frame from X has been handled.                                          *)
(***************************************************************************)
C13_ChokeCancelsRequests ==
  [][\A x \in Peers :
       /\ handle_control_frame(x, "choke") =>
            /\ \A p \in DOMAIN pending_requests' : pending_requests'[p].peer # x
            /\ pending_to(x) \subseteq queued_pieces(request_queue')
       /\ last_received[x] = "choke" =>
            ~\E f \in sent_now' : f.to = x /\ f.type = "piece_request"]_vars

(***************************************************************************)
(* Message.serialize / Message.deserialize over a byte stream              *)
(*                                                                         *)
(* The text json.dumps writes for a message is cut at the two places where *)
(* json.loads tells a prefix apart: after the opening brace, and inside    *)
(* the first string.  A frame is the three pieces in a row; the last one   *)
(* carries the type and the payload.  Junk stands for bytes that are not   *)
(* the start of any JSON value.                                            *)
(***************************************************************************)
VALID_TYPES == {"peer_joined", "peer_list", "piece_request", "piece_response",
                "update_pieces", "get_peers", "cancel_request", "stopped",
                "interested", "not_interested", "choke", "unchoke"}

Open == [kind |-> "open", type |-> ""]
Mid == [kind |-> "mid", type |-> ""]
Close(t) == [kind |-> "close", type |-> t]
Junk == [kind |-> "junk", type |-> ""]

serialize(t) == <<Open, Mid, Close(t)>>

RECURSIVE serialize_all(_)
serialize_all(ts) ==
  IF ts = <<>> THEN <<>> ELSE serialize(Head(ts)) \o serialize_all(Tail(ts))

GotMessage(t) == [kind |-> "message", type |-> t]
GotNone == [kind |-> "none", type |-> ""]
GotValueError == [kind |-> "error", type |-> ""]

\* Message.deserialize on a non-empty buffer.  json.loads fails with
\* "Expecting value" on bytes that start no value and with "Unterminated
\* string" inside a string: lines 77-78 turn both into None.  Every other
\* failure (a lone brace, bytes after a complete value, a type outside
\* VALID_TYPES) is a ValueError.
deserialize(data) ==
  IF data[1].kind \in {"close", "junk"} THEN GotNone
  ELSE IF data[1].kind = "mid"
       THEN IF Len(data) = 1 THEN GotNone ELSE GotValueError
  ELSE IF Len(data) = 1 THEN GotValueError
  ELSE IF data[2].kind # "mid" THEN GotValueError
  ELSE IF Len(data) = 2 THEN GotNone
  ELSE IF data[3].kind # "close" THEN GotNone
  ELSE IF Len(data) > 3 THEN GotValueError
  ELSE IF data[3].type \in VALID_TYPES THEN GotMessage(data[3].type)
  ELSE GotValueError

(***************************************************************************)
(* The remote end of a link, and the two receive loops                     *)
(***************************************************************************)
\* types the remote end puts into its frames; "bogus" is outside VALID_TYPES
SentTypes == {"choke", "update_pieces", "bogus"}

LinkStill == StoreStill /\ NodeStill /\ UNCHANGED <<last_received, dead_connections, trackerVars, swarmVars, dialVars, callVars, stateVars>>

remote_send(l, t) ==
  /\ link_state[l] # "closed"
  /\ Len(sent_frames[l]) < MaxFrames
  /\ wire' = [wire EXCEPT ![l] = @ \o serialize(t)]
  /\ sent_frames' = [sent_frames EXCEPT ![l] = Append(@, t)]
  /\ UNCHANGED <<read_buffer, link_state, delivered>>
  /\ LinkStill

\* the remote end writes bytes that are no frame at all
remote_send_junk(l) ==
  /\ link_state[l] # "closed"
  /\ Len(sent_frames[l]) < MaxFrames
  /\ wire' = [wire EXCEPT ![l] = Append(@, Junk)]
  /\ sent_frames' = [sent_frames EXCEPT ![l] = Append(@, "junk")]
  /\ UNCHANGED <<read_buffer, link_state, delivered>>
  /\ LinkStill

Recv(l, k) == SubSeq(wire[l], 1, k)

\* one round of SocketWrapper._read_loop: recv returns the first k bytes,
\* ConnectionHandler.handle_received_data extends the buffer and
\* _process_read_buffer runs.  The callback of the node starts with
\* message.msg_type, so a None ends the read thread with AttributeError;
\* the socket stays open and the write loop goes on.
read_loop(k) ==
  LET l == PeerLink
      buffer == read_buffer[l] \o Recv(l, k)
      message == deserialize(buffer)
  IN /\ link_state[l] = "open"
     /\ k \in 1..Len(wire[l])
     /\ wire' = [wire EXCEPT ![l] = SubSeq(@, k + 1, Len(@))]
     /\ read_buffer' = [read_buffer EXCEPT ![l] =
          IF message.kind = "error" THEN buffer ELSE <<>>]
     /\ delivered' = [delivered EXCEPT ![l] =
          IF message.kind = "message" THEN Append(@, message.type)
          ELSE IF message.kind = "none" THEN Append(@, "None")
          ELSE @]
     /\ link_state' = [link_state EXCEPT ![l] =
          IF message.kind = "none" THEN "reader_dead" ELSE @]
     /\ UNCHANGED sent_frames
     /\ LinkStill

\* one round of the loop of Tracker._handle_client: _process_message(None)
\* raises AttributeError, which the outer except catches; finally closes
\* the socket
handle_client(k) ==
  LET l == ClientLink
      buffer == read_buffer[l] \o Recv(l, k)
      message == deserialize(buffer)
  IN /\ link_state[l] = "open"
     /\ k \in 1..Len(wire[l])
     /\ wire' = [wire EXCEPT ![l] = SubSeq(@, k + 1, Len(@))]
     /\ read_buffer' = [read_buffer EXCEPT ![l] =
          IF message.kind = "error" THEN buffer ELSE <<>>]
     /\ delivered' = [delivered EXCEPT ![l] =
          IF message.kind = "message" THEN Append(@, message.type)
          ELSE IF message.kind = "none" THEN Append(@, "None")
          ELSE @]
     /\ link_state' = [link_state EXCEPT ![l] =
          IF message.kind = "none" THEN "closed" ELSE @]
     /\ UNCHANGED sent_frames
     /\ LinkStill

\* the longest read: everything the remote end may have sent
MaxRead == MaxFrames * Len(serialize("choke"))

NextConn ==
  \/ \E l \in Links, t \in SentTypes : remote_send(l, t)
  \/ \E l \in Links : remote_send_junk(l)
  \/ \E k \in 1..MaxRead : read_loop(k)
  \/ \E k \in 1..MaxRead : handle_client(k)

SpecConn == Init /\ [][NextConn]_vars

IsPrefix(a, b) == Len(a) <= Len(b) /\ SubSeq(b, 1, Len(a)) = a

WellFormed(l) == \A i \in 1..Len(sent_frames[l]) : sent_frames[l][i] \in VALID_TYPES

(***************************************************************************)
(* C14: for any sequence of well-formed frames sent over a connection and  *)
(* any chunking of the byte stream into reads, the receiver's handler is   *)
(* invoked once per frame, in send order, with the frame that was encoded; *)
(* a partial frame is never consumed or dispatched: what was dispatched is *)
(* a prefix of what was sent, the bytes of the frames not yet dispatched   *)
(* are all still in the buffer or on the wire, and the buffer never holds  *)
(* a whole frame after a read.                                             *)
(***************************************************************************)
C14_FramesDeliveredInOrder ==
  WellFormed(PeerLink) =>
    /\ IsPrefix(delivered[PeerLink], sent_frames[PeerLink])
    /\ serialize_all(delivered[PeerLink]) \o read_buffer[PeerLink] \o wire[PeerLink]
         = serialize_all(sent_frames[PeerLink])
    /\ Len(read_buffer[PeerLink]) < Len(serialize("choke"))

\* bytes that decode to a frame of unknown type, or that are no frame
Offending(buffer) ==
  \/ buffer[1].kind = "junk"
  \/ /\ Len(buffer) = Len(serialize("choke"))
     /\ buffer[1].kind = "open" /\ buffer[2].kind = "mid" /\ buffer[3].kind = "close"
     /\ buffer[3].type \notin VALID_TYPES

(***************************************************************************)
(* C15: when a read leaves a link (the peer link or the tracker's client   *)
(* link) with bytes that decode to an unknown message type or to a         *)
(* malformed frame, the receiver closes that link and does not keep the    *)
(* bytes buffered.                                                         *)
(***************************************************************************)
C15_BadFrameClosesLink ==
  [][\A l \in Links :
       LET k == Len(wire[l]) - Len(wire'[l])
           buffer == read_buffer[l] \o SubSeq(wire[l], 1, k)
       IN (k > 0 /\ Offending(buffer))
            => link_state'[l] = "closed" /\ read_buffer'[l] = <<>>]_vars

(***************************************************************************)
(* C16: after a peer connection has closed or failed the node removes the  *)
(* peer's entry from peer_connections, so that a later peer_list that      *)
(* names the peer causes a new dial: when a peer_list is handled, no peer  *)
(* it names is still in peer_connections with an ended connection.         *)
(***************************************************************************)
C16_DeadConnectionEvicted ==
  [][\A peers \in PeerLists :
       handle_peer_list(peers) =>
         \A x \in dead_connections \cap DOMAIN peers : x \notin peer_connections]_vars

QueueCount(q, p) == Cardinality({i \in 1..Len(q) : q[i][2] = p})

(***************************************************************************)
(* C18: one pass of the timeout sweep removes every pending request older  *)
(* than request_timeout from pending_requests and puts every timed-out     *)
(* piece, reported by the store or found in pending_requests, into the     *)
(* request queue exactly once, ahead of the entries that were queued at    *)
(* their normal priority (the time they were queued).                      *)
(***************************************************************************)
C18_SweepRequeuesOnce ==
  [][check_request_timeouts =>
       LET timed_out == timed_out_pieces(RequestTimeout) \cup timed_out_requests
       IN /\ \A p \in timed_out_requests : p \notin DOMAIN pending_requests'
          /\ \A p \in timed_out :
               QueueCount(request_queue', p) = QueueCount(request_queue, p) + 1
          /\ \A i \in 1..Len(request_queue'), j \in 1..Len(request_queue') :
               (/\ request_queue'[i][2] \in timed_out
                /\ request_queue'[i][1] = now - REQUEUE_PRIORITY_BOOST * 10
                /\ request_queue'[j][1] >= 0) => i < j]_vars

(***************************************************************************)
(* C19: when writing a verified piece to the backing file fails with an    *)
(* I/O error the piece is left Missing: a piece of the torrent is Complete *)
(* only if its bytes were written at offset piece_id * L, so that the file *)
(* holds bytes with the piece's hash there.                                *)
(***************************************************************************)
C19_CompleteOnlyIfWritten ==
  \A p \in PieceIds :
    Complete(p) => writes[p] >= 1 /\ sha1(file[p]) = pieces_hashes[p]

(***************************************************************************)
(* Tracker: the registry active_peers and the client connections           *)
(***************************************************************************)
Localhost == "127.0.0.1"
Ips == {Localhost, "10.0.0.1"}

\* the port of the client's socket as accept() reports it, and the port the
\* client listens on and registers with
SocketPort == [c \in Clients |-> IF c = "c1" THEN "50001" ELSE "50002"]
ListenPort == [c \in Clients |-> IF c = "c1" THEN "6881" ELSE "6882"]

Address(ip, port) == [ip |-> ip, port |-> port]

\* piece lists a client reports
PieceLists == {{0}, PieceIds}

TrackerStill ==
  /\ StoreStill
  /\ NodeStill
  /\ UNCHANGED <<last_received, dead_connections, connVars, swarmVars, dialVars, callVars, stateVars>>

\* the first key of active_peers, in insertion order, that is in keys
FirstKey(keys) ==
  active_order[CHOOSE i \in 1..Len(active_order) :
                 /\ active_order[i] \in keys
                 /\ \A j \in 1..(i - 1) : active_order[j] \notin keys]

\* Tracker._find_peer_address for the (ip, port) tuple of a client socket
find_peer_address(address) ==
  LET same_port == {k \in DOMAIN active_peers : k.port = address.port}
      same_ip == {k \in DOMAIN active_peers : k.ip = address.ip}
  IN IF address \in DOMAIN active_peers THEN address
     ELSE IF address.ip = Localhost /\ Cardinality(DOMAIN active_peers) = 1
          THEN FirstKey(DOMAIN active_peers)
     ELSE IF address.ip = Localhost /\ same_port # {}
          THEN FirstKey(same_port)
     ELSE IF same_ip # {}
          THEN FirstKey(same_ip)
     ELSE address

\* Tracker._accept_connections: a client connects from host ip
accept_client(c, ip) ==
  /\ client_address[c] = NoAddress
  /\ client_address' = [client_address EXCEPT ![c] = Address(ip, SocketPort[c])]
  /\ peer_list_sent' = NoPeerList
  /\ UNCHANGED <<active_peers, active_order, registered, registrations, last_update>>
  /\ TrackerStill

PeerInfo(pieces) == [last_seen |-> now, pieces |-> pieces]

\* Tracker.get_all_peers on the registry peers: every entry with its pieces
get_all_peers(peers) == {[address |-> k, pieces |-> peers[k].pieces] : k \in DOMAIN peers}

\* registration under the address of the client's socket instead of the
\* address of the frame
peer_joined_by_socket(c) ==
  LET std_address == client_address[c]
  IN /\ client_address[c] # NoAddress
     /\ registrations[c] < MaxRegistrations
     /\ registrations' = [registrations EXCEPT ![c] = @ + 1]
     /\ active_peers' = Put(active_peers, std_address, PeerInfo({}))
     /\ active_order' = Append(active_order, std_address)
     /\ registered' = [registered EXCEPT ![c] = std_address]
     /\ peer_list_sent' = [to |-> c, peers |-> get_all_peers(active_peers')]
     /\ UNCHANGED <<client_address, last_update>>
     /\ TrackerStill

\* _process_message for peer_joined{address}: Tracker.register_peer
peer_joined(c) ==
  LET std_address == Address(client_address[c].ip, ListenPort[c])
  IN /\ client_address[c] # NoAddress
     /\ registrations[c] < MaxRegistrations
     /\ registrations' = [registrations EXCEPT ![c] = @ + 1]
     /\ active_peers' = Put(active_peers, std_address, PeerInfo({}))
     /\ active_order' = IF std_address \in DOMAIN active_peers THEN active_order
                        ELSE Append(active_order, std_address)
     /\ registered' = [registered EXCEPT ![c] = std_address]
     /\ peer_list_sent' = [to |-> c, peers |-> get_all_peers(active_peers')]
     /\ UNCHANGED <<client_address, last_update>>
     /\ TrackerStill

\* _process_message for update_pieces{pieces}: Tracker.update_peer_pieces
\* with the address of the client socket
update_peer_pieces(c, pieces) ==
  LET peer_address == find_peer_address(client_address[c])
  IN /\ client_address[c] # NoAddress
     /\ active_peers' = IF peer_address \in DOMAIN active_peers
                        THEN [active_peers EXCEPT ![peer_address] = PeerInfo(pieces)]
                        ELSE active_peers
     /\ last_update' = [last_update EXCEPT ![c] = now]
     /\ peer_list_sent' = NoPeerList
     /\ UNCHANGED <<active_order, client_address, registered, registrations>>
     /\ TrackerStill

WithoutKey(q, k) ==
  LET Keep(e) == e # k IN SelectSeq(q, Keep)

\* the client closes: the finally of Tracker._handle_client runs
\* Tracker._remove_peer with the address of the client socket
client_closed(c) ==
  LET peer_address == find_peer_address(client_address[c])
  IN /\ client_address[c] # NoAddress
     /\ active_peers' = Del(active_peers, peer_address)
     /\ active_order' = WithoutKey(active_order, peer_address)
     /\ client_address' = [client_address EXCEPT ![c] = NoAddress]
     /\ registered' = [registered EXCEPT ![c] = NoAddress]
     /\ registrations' = [registrations EXCEPT ![c] = 0]
     /\ last_update' = [last_update EXCEPT ![c] = Never]
     /\ peer_list_sent' = NoPeerList
     /\ TrackerStill

\* _process_message for get_peers: the snapshot goes back to the client
get_peers(c) ==
  /\ client_address[c] # NoAddress
  /\ peer_list_sent' = [to |-> c, peers |-> get_all_peers(active_peers)]
  /\ UNCHANGED <<active_peers, active_order, client_address, registered, registrations, last_update>>
  /\ TrackerStill

\* the entries _perform_health_check collects: last_seen older than 300 s
peers_to_remove == {k \in DOMAIN active_peers : now - active_peers[k].last_seen > InactivityTimeout}

RECURSIVE WithoutKeys(_, _)
WithoutKeys(q, keys) ==
  IF q = <<>> THEN <<>>
  ELSE IF Head(q) \in keys THEN WithoutKeys(Tail(q), keys)
  ELSE <<Head(q)>> \o WithoutKeys(Tail(q), keys)

\* Tracker._perform_health_check: _remove_peer is called with the registry
\* key itself, which _find_peer_address returns as it is
perform_health_check ==
  /\ peers_to_remove # {}
  /\ active_peers' = [k \in (DOMAIN active_peers) \ peers_to_remove |-> active_peers[k]]
  /\ active_order' = WithoutKeys(active_order, peers_to_remove)
  /\ peer_list_sent' = NoPeerList
  /\ UNCHANGED <<client_address, registered, registrations, last_update>>
  /\ TrackerStill

NextTracker ==
  \/ \E c \in Clients, ip \in Ips : accept_client(c, ip)
  \/ \E c \in Clients : peer_joined(c)
  \/ \E c \in Clients, pieces \in PieceLists : update_peer_pieces(c, pieces)
  \/ \E c \in Clients : get_peers(c)
  \/ perform_health_check
  \/ \E c \in Clients : client_closed(c)
  \/ Tick

SpecTracker == Init /\ [][NextTracker]_vars

(***************************************************************************)
(* C20: an update_pieces received on a client connection replaces the      *)
(* pieces and refreshes last_seen of exactly the peer that registered over *)
(* that connection and leaves every other entry unchanged, also when       *)
(* several registered peers share an IP address; when no peer registered   *)
(* over the connection the registry is unchanged.                          *)
(***************************************************************************)
C20_UpdateHitsOwnEntry ==
  [][\A c \in Clients, pieces \in PieceLists :
       update_peer_pieces(c, pieces) =>
         active_peers' = IF registered[c] \in DOMAIN active_peers
                         THEN [active_peers EXCEPT ![registered[c]] = PeerInfo(pieces)]
                         ELSE active_peers]_vars

\* client c is registered and has sent update_pieces within the last
\* heartbeat interval
Heartbeating(c) ==
  /\ registered[c] \in DOMAIN active_peers
  /\ last_update[c] # Never
  /\ now - last_update[c] <= HeartbeatInterval

(***************************************************************************)
(* C21: a registered peer that sends update_pieces over its tracker        *)
(* connection at least once per heartbeat interval is never removed by the *)
(* liveness sweep, however many other peers are registered and whatever    *)
(* source address its connection has; the sweep removes only peers whose   *)
(* last_seen is older than the inactivity timeout.                         *)
(***************************************************************************)
C21_HeartbeatKeepsPeer ==
  [][perform_health_check =>
       /\ \A c \in Clients : Heartbeating(c) => registered[c] \in DOMAIN active_peers'
       /\ \A k \in (DOMAIN active_peers) \ (DOMAIN active_peers') :
            now - active_peers[k].last_seen > InactivityTimeout]_vars

(***************************************************************************)
(* C22: a peer whose last_seen is more than the inactivity timeout in the  *)
(* past is absent from every peer_list snapshot the tracker produces, in   *)
(* answer to get_peers and to peer_joined, also before the next liveness   *)
(* sweep has run.                                                          *)
(***************************************************************************)
C22_StalePeerNotListed ==
  [][\A c \in Clients :
       (get_peers(c) \/ peer_joined(c)) =>
         \A e \in peer_list_sent'.peers :
           now - active_peers'[e.address].last_seen <= InactivityTimeout]_vars

(***************************************************************************)
(* C23: when the tracker link is lost while the node is running, the       *)
(* heartbeat for that link stops and a reconnection is started: the round  *)
(* of the heartbeat that finds the link lost drops tracker_connection, so  *)
(* that connect_to_tracker can run again, and no heartbeat round after it  *)
(* sends on the lost link.                                                 *)
(***************************************************************************)
C23_LinkLossStopsHeartbeat ==
  [][(tracker_heartbeat /\ Tracker \in dead_connections) => ~tracker_connection']_vars

(***************************************************************************)
(* The node's view of the swarm                                            *)
(***************************************************************************)
\* peer_list payloads over every set of addresses, the node's own included
SwarmLists ==
  UNION {[D -> PieceLists] : D \in (SUBSET (Peers \cup {Self})) \ {{}}}

NextSwarm ==
  \/ connect_to_tracker
  \/ \E peers \in SwarmLists : handle_peer_list(peers)
  \/ \E x \in Peers : connection_lost(x)
  \/ \E x \in Peers : register_peer_stats(x)
  \/ update_choking

SpecSwarm == Init /\ [][NextSwarm]_vars

\* the number of peers of peer_pieces that hold piece i
Holders(pp, i) == Cardinality({x \in DOMAIN pp : i \in pp[x]})

(***************************************************************************)
(* C24: once a peer_list is processed, peer_pieces holds exactly the peers *)
(* of that list other than the node itself, each with the pieces the list  *)
(* gives it, and piece_availability[i] is the number of peers of           *)
(* peer_pieces that hold i, for every piece i.                             *)
(***************************************************************************)
C24_ViewMatchesPeerList ==
  [][\A peers \in SwarmLists :
       handle_peer_list(peers) =>
         /\ peer_pieces' = [x \in (DOMAIN peers) \ {Self} |-> peers[x]]
         /\ \A i \in PieceIds : piece_availability'[i] = Holders(peer_pieces', i)]_vars

(***************************************************************************)
(* SocketWrapper.connect                                                   *)
(***************************************************************************)
DialStill ==
  /\ StoreStill
  /\ NodeStill
  /\ UNCHANGED <<last_received, dead_connections, connVars, trackerVars, swarmVars, callVars, stateVars>>

\* retries < self.max_retries, the test of the while loop, with the value
\* connect returns when it fails
loop_or_false(max_retries, retries) ==
  IF retries < max_retries THEN "loop" ELSE "false"

\* connect is called on a new SocketWrapper(host, port, max_retries = n):
\* retries = 0 and the first test of the loop
connect(t, n) ==
  /\ dial[t].pc # "loop"
  /\ dial' = [dial EXCEPT ![t] = [pc |-> loop_or_false(n, 0), max_retries |-> n,
                                  retries |-> 0, attempts |-> 0]]
  /\ DialStill

\* the loop without its counter
connect_attempt_uncounted(t, ok) ==
  /\ dial[t].pc = "loop"
  /\ dial' = [dial EXCEPT ![t].attempts = @ + 1,
                          ![t].pc = IF ok THEN "true" ELSE "loop"]
  /\ DialStill

\* one round of the loop: socket.connect succeeds (return True) or raises
\* (close, retries += 1, the test retries > max_retries, which cannot hold
\* here, the sleep and the test of the loop)
connect_attempt(t, ok) ==
  /\ dial[t].pc = "loop"
  /\ IF ok
       THEN dial' = [dial EXCEPT ![t].attempts = @ + 1, ![t].pc = "true"]
       ELSE dial' = [dial EXCEPT ![t].attempts = @ + 1,
                                 ![t].retries = @ + 1,
                                 ![t].pc = IF dial[t].retries + 1 > dial[t].max_retries
                                             THEN "false"
                                             ELSE loop_or_false(dial[t].max_retries,
                                                                dial[t].retries + 1)]
  /\ DialStill

NextDial ==
  \/ \E t \in DialTargets, n \in 0..MaxRetries : connect(t, n)
  \/ \E t \in DialTargets, ok \in BOOLEAN : connect_attempt(t, ok)

\* socket.connect returns or raises within connect_timeout and the sleep
\* ends, so a call that is in its loop goes on to the next round
SpecDial ==
  Init /\ [][NextDial]_vars
       /\ \A t \in DialTargets : WF_vars(\E ok \in BOOLEAN : connect_attempt(t, ok))

(***************************************************************************)
(* C25: SocketWrapper.connect makes at most max_retries attempts, returns  *)
(* true at the first attempt that succeeds, returns false after exactly    *)
(* max_retries failed attempts, and always returns.                        *)
(***************************************************************************)
C25_ConnectBounded ==
  /\ [](\A t \in DialTargets :
          /\ dial[t].attempts <= dial[t].max_retries
          /\ dial[t].pc = "true" => dial[t].attempts = dial[t].retries + 1
          /\ dial[t].pc = "false" => /\ dial[t].retries = dial[t].max_retries
                                     /\ dial[t].attempts = dial[t].max_retries)
  /\ [][\A t \in DialTargets :
          /\ connect_attempt(t, TRUE) => dial'[t].pc = "true"
          /\ (connect_attempt(t, FALSE) /\ dial[t].retries + 1 < dial[t].max_retries)
               => dial'[t].pc = "loop"]_vars
  /\ \A t \in DialTargets : dial[t].pc = "loop" ~> dial[t].pc \in {"true", "false"}

\* one call has given up after two failed attempts and another has
\* succeeded at its second attempt
C25_Witness ==
  /\ \E t \in DialTargets :
       dial[t].pc = "false" /\ dial[t].max_retries >= 2 /\ dial[t].attempts = dial[t].max_retries
  /\ \E t \in DialTargets :
       dial[t].pc = "true" /\ dial[t].attempts >= 2

\* registration alone: clients connect, register, report pieces and leave
NextRegister ==
  \/ \E c \in Clients, ip \in Ips : accept_client(c, ip)
  \/ \E c \in Clients : peer_joined(c)
  \/ \E c \in Clients, pieces \in PieceLists : update_peer_pieces(c, pieces)
  \/ \E c \in Clients : client_closed(c)

SpecRegister == Init /\ [][NextRegister]_vars

\* how many times key k stands in the insertion order
Entries(order, k) == Cardinality({i \in 1..Len(order) : order[i] = k})

(***************************************************************************)
(* C26: registering an address again leaves the membership as it was: the  *)
(* registry holds exactly one entry per address, the set of addresses      *)
(* after a registration is the set before it plus the registered address   *)
(* (so unchanged when the address was already registered), and the view    *)
(* returned to the registering peer contains that address, once.           *)
(***************************************************************************)
C26_RegisterIdempotent ==
  [][\A c \in Clients :
       peer_joined(c) =>
         LET a == Address(client_address[c].ip, ListenPort[c])
         IN /\ DOMAIN active_peers' = (DOMAIN active_peers) \cup {a}
            /\ \A k \in DOMAIN active_peers' : Entries(active_order', k) = 1
            /\ \A i \in 1..Len(active_order') : active_order'[i] \in DOMAIN active_peers'
            /\ a \in DOMAIN active_peers =>
                 /\ DOMAIN active_peers' = DOMAIN active_peers
                 /\ active_order' = active_order
            /\ peer_list_sent'.to = c
            /\ Cardinality({e \in peer_list_sent'.peers : e.address = a}) = 1
            /\ {e.address : e \in peer_list_sent'.peers} = DOMAIN active_peers']_vars

\* a client has registered twice over one connection, is in the registry
\* and was sent the view
C26_Witness ==
  \E c \in Clients :
    /\ registrations[c] >= 2
    /\ registered[c] \in DOMAIN active_peers
    /\ peer_list_sent.to = c
    /\ \E e \in peer_list_sent.peers : e.address = registered[c]
    /\ Cardinality(DOMAIN active_peers) >= 2

(***************************************************************************)
(* C27: every piece id is in exactly one of Missing, InFlight,             *)
(* PendingVerify and Complete: no id is both in in_progress_pieces and in  *)
(* completed_pieces, none is both in in_progress_pieces and in             *)
(* pending_verification, and a Complete piece is reported neither by       *)
(* check_timeouts nor by get_needed_pieces.                                *)
(***************************************************************************)
C27_OneStatePerPiece ==
  \A p \in AnyIds :
    /\ ~(p \in DOMAIN in_progress_pieces /\ p \in completed_pieces)
    /\ ~(p \in DOMAIN in_progress_pieces /\ p \in DOMAIN pending_verification)
    /\ p \in completed_pieces =>
         /\ p \notin timed_out_pieces(RequestTimeout)
         /\ p \notin get_needed_pieces

(***************************************************************************)
(* C28: for every piece id p, piece 0 included, a piece_response for p     *)
(* with non-empty data that is received while p is in pending_requests is  *)
(* taken up: the handler goes on to _handle_piece_received, which removes  *)
(* p from pending_requests and hands the data to the store.                *)
(***************************************************************************)
C28_RequestedResponseTaken ==
  [][\A x \in Peers :
       (/\ dispatch_piece_response(x)
        /\ handler[x].data # <<>>
        /\ handler[x].piece_id \in DOMAIN pending_requests)
         => handler'[x].pc = "received"]_vars

(***************************************************************************)
(* Node._request_piece_from_peer, statement by statement                   *)
(***************************************************************************)
\* lines 672-674, for a piece and a peer download_pieces has chosen: the
\* frame is put on the write queue of the connection, outside the lock
request_piece_send(p, x) ==
  /\ handler[Driver].pc = "idle"
  /\ available_pieces # {}
  /\ \E pieces_to_request \in select_next_pieces(get_needed_pieces) : p \in pieces_to_request
  /\ x \in suitable_peers(p)
  /\ handler' = [handler EXCEPT ![Driver] =
       [pc |-> "request_sent", type |-> "piece_request", piece_id |-> p, data |-> <<>>,
        peer |-> x]]
  /\ sent_now' = {piece_request(x, p)}
  /\ StoreIdle
  /\ UNCHANGED chokeVars
  /\ UNCHANGED <<peer_connections, peer_pieces, available_pieces, my_pieces, pending_requests,
                 request_queue, node_state, tracker_connection, downloaded_pieces, last_control>>

\* lines 677-681: the entry of pending_requests, under the lock
request_piece_record ==
  /\ handler[Driver].pc = "request_sent"
  /\ pending_requests' =
       Put(pending_requests, handler[Driver].piece_id, RequestEntry(handler[Driver].peer))
  /\ handler' = [handler EXCEPT ![Driver] = IdleHandler]
  /\ sent_now' = {}
  /\ StoreIdle
  /\ UNCHANGED chokeVars
  /\ UNCHANGED <<peer_connections, peer_pieces, available_pieces, my_pieces, request_queue,
                 node_state, tracker_connection, downloaded_pieces, last_control>>

\* the requesting thread and the receive threads of the node, interleaved
NextRequest ==
  \/ connect_to_tracker
  \/ \E peers \in PeerLists : handle_peer_list(peers)
  \/ \E x \in Peers : register_peer_stats(x)
  \/ update_choking
  \/ \E p \in PieceIds, x \in Peers : request_piece_send(p, x)
  \/ request_piece_record
  \/ \E x \in Peers, id \in PieceIds : \E d \in ResponseData(id) : receive_piece_response(x, id, d)
  \/ \E x \in Peers : dispatch_piece_response(x)
  \/ \E x \in Peers : handle_piece_received(x)
  \/ \E t \in Threads : credit_piece(t)
  \/ \E p \in PieceIds : verify_take(p)
  \/ \E p \in PieceIds, d \in DataVals : verify_save(p, d, TRUE)

SpecRequest == Init /\ [][NextRequest]_vars

(***************************************************************************)
(* C29: once a piece_request for p is on the write queue of a peer, p is   *)
(* in pending_requests, so that the peer's piece_response for p, whenever  *)
(* it is handled, is not rejected as unrequested.                          *)
(***************************************************************************)
C29_PendingBeforeSend ==
  [][/\ \A p \in PieceIds, x \in Peers :
          request_piece_send(p, x) => p \in DOMAIN pending_requests'
     /\ \A x \in Peers :
          (/\ dispatch_piece_response(x)
           /\ handler[Driver].pc = "request_sent"
           /\ handler[Driver].peer = x
           /\ handler[Driver].piece_id = handler[x].piece_id
           /\ handler[x].piece_id # 0
           /\ handler[x].data # <<>>)
            => handler'[x].pc = "received"]_vars

(***************************************************************************)
(* C30: every connected peer, one with which no bytes were exchanged       *)
(* included, is a candidate for the optimistic unchoke: whenever the       *)
(* choking decisions are recomputed, the peers the optimistic slot is      *)
(* drawn from include every peer of peer_connections, so that rotation     *)
(* reaches each of them.                                                   *)
(***************************************************************************)
C30_ConnectedPeersAreCandidates ==
  [][update_choking => peer_connections \subseteq DOMAIN peer_stats]_vars

(***************************************************************************)
(* The selection regime over a run of responses                            *)
(***************************************************************************)
\* PieceSelectionManager.active_strategy: update_piece_progress moves it to
\* the rarest-first strategy once downloaded_pieces reaches the threshold
\* and never assigns it again
active_strategy == IF downloaded_pieces >= threshold THEN "rarest" ELSE "random"

\* the downloading node with up to MaxResponses responses from its peers
NextRegime ==
  \/ connect_to_tracker
  \/ \E peers \in PeerLists : handle_peer_list(peers)
  \/ \E x \in Peers : register_peer_stats(x)
  \/ update_choking
  \/ download_pieces
  \/ \E id \in PieceIds : \E d \in ResponseData(id) :
       receive_response_within(MaxResponses, "p1", id, d)
  \/ \E x \in Peers : dispatch_piece_response(x)
  \/ \E x \in Peers : handle_piece_received_within(MaxResponses, x)
  \/ \E t \in Threads : credit_piece(t)
  \/ \E p \in PieceIds : verify_take(p)
  \/ \E p \in PieceIds, d \in DataVals : verify_save(p, d, TRUE)

SpecRegime == Init /\ [][NextRegime]_vars

SelPieces == 0..MaxSelPiece
Depths == 0..MaxDepth

\* PieceManager.get_needed_pieces builds its list in ascending order of id
RECURSIVE SortedSeq(_)
SortedSeq(S) ==
  IF S = {} THEN <<>>
  ELSE LET m == CHOOSE x \in S : \A y \in S : x <= y
       IN <<m>> \o SortedSeq(S \ {m})

Range(q) == {q[i] : i \in 1..Len(q)}

\* the elements of list q that are not in the set out, in the order of q
RECURSIVE Without(_, _)
Without(q, out) ==
  IF q = <<>> THEN <<>>
  ELSE IF Head(q) \in out THEN Without(Tail(q), out)
       ELSE <<Head(q)>> \o Without(Tail(q), out)

\* sum(1 for pieces in peer_pieces.values() if piece_id in pieces)
holders(pp, p) == Cardinality({x \in DOMAIN pp : p \in pp[x]})

\* insertion before the elements of equal count
insert_before_equal(sorted, p, pp) ==
  LET k == Cardinality({i \in 1..Len(sorted) : holders(pp, sorted[i]) < holders(pp, p)})
  IN SubSeq(sorted, 1, k) \o <<p>> \o SubSeq(sorted, k + 1, Len(sorted))

\* p put into a list sorted by count, behind the elements of equal count
insert_sorted(sorted, p, pp) ==
  LET k == Cardinality({i \in 1..Len(sorted) : holders(pp, sorted[i]) <= holders(pp, p)})
  IN SubSeq(sorted, 1, k) \o <<p>> \o SubSeq(sorted, k + 1, Len(sorted))

\* sorted(piece_availability.items(), key = count): a stable sort, so pieces
\* of equal count keep the order in which the dictionary was filled
RECURSIVE sorted_by_count(_, _, _)
sorted_by_count(q, pp, done) ==
  IF q = <<>> THEN done
  ELSE sorted_by_count(Tail(q), pp, insert_sorted(done, Head(q), pp))

\* the depth alone
slots_of_depth(depth, in_progress) == depth

\* max(0, max_pipeline_depth - len(in_progress_pieces))
slots(depth, in_progress) ==
  IF depth - Cardinality(in_progress) > 0 THEN depth - Cardinality(in_progress) ELSE 0

\* the list slice q[:n]
Take(q, n) == SubSeq(q, 1, Min(n, Len(q)))

\* RarestFirstStrategy.select_next_piece
rarest_select_next_piece(needed_pieces, pp, in_progress, depth) ==
  Take(sorted_by_count(Without(needed_pieces, in_progress), pp, <<>>),
       slots(depth, in_progress))

\* the arguments of one call of select_next_piece
InitSelect ==
  /\ InitStore /\ InitObs /\ InitNode({}, "peer_discovery") /\ InitLink /\ InitLeecher
  /\ \E N \in SUBSET SelPieces, I \in SUBSET SelPieces, depth \in Depths :
       \E pp \in [Peers -> SUBSET SelPieces] :
         strategy_call = [op |-> "select_next_piece", needed_pieces |-> SortedSeq(N),
                          peer_pieces |-> pp, in_progress_pieces |-> I,
                          max_pipeline_depth |-> depth, strategy |-> "none",
                          result |-> <<>>]

CallStill ==
  /\ StoreStill
  /\ NodeStill
  /\ UNCHANGED <<last_received, dead_connections, connVars, trackerVars, swarmVars, dialVars, stateVars>>

rarest_call ==
  /\ strategy_call.op = "select_next_piece"
  /\ strategy_call.strategy = "none"
  /\ strategy_call' =
       [strategy_call EXCEPT
          !.strategy = "rarest",
          !.result = rarest_select_next_piece(strategy_call.needed_pieces,
                                              strategy_call.peer_pieces,
                                              strategy_call.in_progress_pieces,
                                              strategy_call.max_pipeline_depth)]
  /\ CallStill

\* the injective lists of length k over the elements of q: random.sample(q, k)
sample(q, k) ==
  {r \in [1..k -> Range(q)] : \A i, j \in 1..k : i # j => r[i] # r[j]}

\* the elements of list q that are in the set keep, in the order of q
RECURSIVE Within(_, _)
Within(q, keep) ==
  IF q = <<>> THEN <<>>
  ELSE IF Head(q) \in keep THEN <<Head(q)>> \o Within(Tail(q), keep)
       ELSE Within(Tail(q), keep)

\* RandomFirstPiecesStrategy.select_next_piece: the lists it may return
random_select_next_piece(needed_pieces, pp, in_progress, depth) ==
  LET available_pieces_of_peers == UNION {pp[x] : x \in DOMAIN pp}
      candidate_pieces == Within(needed_pieces, available_pieces_of_peers \ in_progress)
  IN IF candidate_pieces = <<>> THEN {<<>>}
     ELSE sample(candidate_pieces, Min(slots(depth, in_progress), Len(candidate_pieces)))

random_call ==
  /\ strategy_call.op = "select_next_piece"
  /\ strategy_call.strategy = "none"
  /\ \E r \in random_select_next_piece(strategy_call.needed_pieces,
                                        strategy_call.peer_pieces,
                                        strategy_call.in_progress_pieces,
                                        strategy_call.max_pipeline_depth) :
       strategy_call' = [strategy_call EXCEPT !.strategy = "random", !.result = r]
  /\ CallStill

NextSelect ==
  \/ rarest_call
  \/ random_call

SpecSelect == InitSelect /\ [][NextSelect]_vars

(***************************************************************************)
(* C32: rarest-first returns the first P - |in_flight| pieces of needed    *)
(* minus in_flight in ascending order of availability (the number of       *)
(* peers holding the piece), pieces of equal availability in ascending     *)
(* order of index.                                                         *)
(***************************************************************************)
RarerThan(pp, a, b) ==
  \/ holders(pp, a) < holders(pp, b)
  \/ holders(pp, a) = holders(pp, b) /\ a < b

LeecherTypes == {"peer_discovery", "downloading", "endgame"}
StateTypes == LeecherTypes \cup {"seeding"}

\* the order PeerDiscovery -> Downloading -> Endgame -> Seeding
StateRank(t) ==
  IF t = "peer_discovery" THEN 0
  ELSE IF t = "downloading" THEN 1
  ELSE IF t = "endgame" THEN 2 ELSE 3

\* MessageFactory.get_peers_from_tracker / MessageFactory.cancel_request
get_peers_from_tracker == Frame(Tracker, "get_peers", 0, <<>>, {})
cancel_request(to, p) == Frame(to, "cancel_request", p, <<>>, {})

\* PieceManager.get_download_progress, a percentage
get_download_progress == (Cardinality(completed_pieces) * 100) \div total_pieces

\* a step of the state machine leaves the store, the choking state and the
\* rest of the node alone
StateStill ==
  /\ StoreStill
  /\ UNCHANGED chokeVars
  /\ UNCHANGED <<peer_connections, peer_pieces, available_pieces, my_pieces, request_queue,
                 tracker_connection, downloaded_pieces, handler, last_control>>
  /\ UNCHANGED <<last_received, dead_connections, connVars, trackerVars, swarmVars, dialVars,
                 callVars>>

\* LeecherState.transition_to: the new sub-state is built, then handed its
\* own node attribute, which the constructor has just set to None
transition_to(state_type) ==
  NewState(IF state_type = "peer_discovery" THEN now ELSE 0)

\* Node.transition_state: SeederState is attached to the node and announces
\* the pieces on entry; a leecher sub-state is entered through transition_to,
\* and its enter() finds no node
transition_state(state_type) ==
  /\ node_state' = state_type
  /\ current_state' =
       IF state_type = "seeding" THEN [NewState(0) EXCEPT !.node = Self]
       ELSE transition_to(state_type)
  /\ sent_now' =
       IF state_type = "seeding" /\ tracker_connection THEN {update_pieces(my_pieces)} ELSE {}
  /\ UNCHANGED <<pending_requests, asked>>

\* nothing is sent and no state changes
state_unchanged ==
  /\ UNCHANGED <<node_state, current_state, pending_requests, asked>>
  /\ sent_now' = {}

\* LeecherState.set_node, called by the owner of the node
set_node ==
  /\ node_state \in LeecherTypes
  /\ current_state.node = NoNode
  /\ current_state' = [current_state EXCEPT !.node = Self]
  /\ UNCHANGED <<node_state, pending_requests, asked>>
  /\ sent_now' = {}
  /\ StateStill

\* Node.transition_state called by the owner of the node
call_transition_state(state_type) ==
  /\ transition_state(state_type)
  /\ StateStill

\* PeerDiscoveryState.update. Without a node the timeout branch calls
\* transition_state on None: the update ends in an AttributeError
PeerDiscoveryState_update ==
  /\ node_state = "peer_discovery"
  /\ LET attached == current_state.node # NoNode
         timed_out == now - current_state.start_time > discovery_timeout
     IN IF attached /\ (Cardinality(peer_connections) >= min_peers \/ timed_out)
        THEN transition_state("downloading")
        ELSE IF timed_out THEN state_unchanged
        ELSE /\ UNCHANGED <<node_state, current_state, pending_requests, asked>>
             /\ sent_now' = IF attached /\ tracker_connection
                            THEN {get_peers_from_tracker} ELSE {}
  /\ StateStill

\* the assignments piece -> peer that Node.download_pieces may request
download_choices ==
  IF available_pieces = {} \/ get_needed_pieces = {} THEN {<<>>}
  ELSE UNION {LET requested == {p \in pieces_to_request : suitable_peers(p) # {}}
              IN {peer \in [requested -> Peers] : \A p \in requested : peer[p] \in suitable_peers(p)}
              : pieces_to_request \in select_next_pieces(get_needed_pieces)}

\* DownloadingState.update
DownloadingState_update ==
  /\ node_state = "downloading"
  /\ LET check == now - current_state.last_progress_check > progress_check_interval
     IN IF current_state.node = NoNode THEN state_unchanged
        ELSE IF is_complete THEN transition_state("seeding")
        ELSE IF check /\ get_download_progress >= endgame_threshold
        THEN transition_state("endgame")
        ELSE /\ node_state' = node_state
             /\ current_state' = [current_state EXCEPT !.last_progress_check =
                                    IF check THEN now ELSE @]
             /\ \E peer \in download_choices :
                  /\ sent_now' = {piece_request(peer[p], p) : p \in DOMAIN peer}
                  /\ pending_requests' =
                       [p \in (DOMAIN pending_requests) \cup (DOMAIN peer) |->
                          IF p \in DOMAIN peer THEN RequestEntry(peer[p])
                          ELSE pending_requests[p]]
                  /\ asked' = [p \in PieceIds |->
                                 asked[p] \cup (IF p \in DOMAIN peer THEN {peer[p]} ELSE {})]
  /\ StateStill

\* EndgameState._get_peers_with_pieces (called as _get_peers_with_piece)
get_peers_with_pieces(piece_id) ==
  {x \in DOMAIN peer_pieces : piece_id \in peer_pieces[x] /\ x \in unchoked_peers}

\* peers_with_piece[:3], the list being in the order of the peer_pieces
\* dictionary: any max_endgame_peers of the peers
first_peers(peers_with_piece) ==
  {S \in SUBSET peers_with_piece :
     Cardinality(S) = Min(max_endgame_peers, Cardinality(peers_with_piece))}

\* EndgameState._request_all_remaining_pieces: _request_piece_from_peer for
\* every needed piece and each of its first peers; the entry of
\* pending_requests is the one of the last request
request_all_remaining_pieces ==
  \E to \in [get_needed_pieces -> SUBSET Peers] :
    /\ \A p \in get_needed_pieces : to[p] \in first_peers(get_peers_with_pieces(p))
    /\ LET sent(p) == to[p] \cap peer_connections
           requested == {p \in get_needed_pieces : sent(p) # {}}
       IN /\ sent_now' = UNION {{piece_request(x, p) : x \in sent(p)} : p \in requested}
          /\ \E last \in [requested -> Peers] :
               /\ \A p \in requested : last[p] \in sent(p)
               /\ pending_requests' =
                    [p \in (DOMAIN pending_requests) \cup requested |->
                       IF p \in requested THEN RequestEntry(last[p]) ELSE pending_requests[p]]
          /\ asked' = [p \in PieceIds |->
                         asked[p] \cup (IF p \in requested THEN sent(p) ELSE {})]

\* EndgameState.update
EndgameState_update ==
  /\ node_state = "endgame"
  /\ IF current_state.node = NoNode THEN state_unchanged
     ELSE IF is_complete THEN transition_state("seeding")
     ELSE /\ UNCHANGED <<node_state, current_state>>
          /\ request_all_remaining_pieces
  /\ StateStill

\* EndgameState.handle_piece_complete: the peers sent a cancel_request
cancel_targets(piece_id) ==
  {x \in peer_connections : x \in DOMAIN peer_pieces /\ piece_id \in peer_pieces[x]}

\* LeecherState.handle_piece_completed(piece_id), called for the piece whose
\* copy the receive thread of peer x has just had accepted; only
\* EndgameState acts on it
handle_piece_completed(x) ==
  /\ node_state \in LeecherTypes
  /\ handler[x].pc = "credit"
  /\ sent_now' =
       IF node_state = "endgame" /\ current_state.node # NoNode
       THEN {cancel_request(y, handler[x].piece_id) : y \in cancel_targets(handler[x].piece_id)}
       ELSE {}
  /\ UNCHANGED <<node_state, current_state, pending_requests, asked>>
  /\ StateStill

\* the leecher and its state machine: the owner attaches the node, calls
\* update and transition_state and hands in pieces; the swarm view, the
\* choking decisions and the verify threads run beside it
NextState ==
  \/ connect_to_tracker
  \/ \E peers \in PeerLists : handle_peer_list(peers)
  \/ \E x \in Peers : register_peer_stats(x)
  \/ update_choking
  \/ set_node
  \/ call_transition_state("endgame")
  \/ PeerDiscoveryState_update
  \/ DownloadingState_update
  \/ EndgameState_update
  \/ \E id \in PieceIds : call_handle_piece_received(id, PieceData(id))
  \/ credit_piece(Driver)
  \/ \E p \in PieceIds : verify_take(p)
  \/ \E p \in PieceIds, d \in DataVals : verify_save(p, d, TRUE)
  \/ Tick

SpecState == Init /\ [][NextState]_vars

\* the leecher put in endgame by its owner: the requests of each update, the
\* answers of the peers on their receive threads, the cancels
NextEndgame ==
  \/ connect_to_tracker
  \/ \E peers \in PeerLists : handle_peer_list(peers)
  \/ \E x \in Peers : register_peer_stats(x)
  \/ update_choking
  \/ set_node
  \/ call_transition_state("endgame")
  \/ EndgameState_update
  \/ \E x \in Peers, id \in PieceIds : receive_piece_response(x, id, PieceData(id))
  \/ \E x \in Peers : dispatch_piece_response(x)
  \/ \E x \in Peers : handle_piece_received(x)
  \/ \E x \in Peers : handle_piece_completed(x)
  \/ \E x \in Peers : credit_piece(x)
  \/ \E p \in PieceIds : verify_take(p)
  \/ \E p \in PieceIds, d \in DataVals : verify_save(p, d, TRUE)

SpecEndgame == Init /\ [][NextEndgame]_vars

\* the peers that a frame of the last step asks for piece p, or tells to
\* drop their request for it
RequestedFrom(p) == {x \in Peers : piece_request(x, p) \in sent_now'}
CancelledAt(p) == {x \in Peers : cancel_request(x, p) \in sent_now'}

\* the unchoked peers known to hold piece p
UnchokedHolders(p) ==
  {x \in unchoked_peers : x \in DOMAIN peer_pieces /\ p \in peer_pieces[x]}

(***************************************************************************)
(* C34: in Endgame, when the copy of piece p delivered by peer x has been  *)
(* accepted and the completion is handed to the state, cancel_request{p}   *)
(* goes to exactly the other peers that were asked for p: not to x, and    *)
(* not to a peer that was never asked.                                     *)
(***************************************************************************)
C34_CancelOnlyDuplicates ==
  [][\A x \in Peers :
       (handle_piece_completed(x) /\ node_state = "endgame")
         => CancelledAt(handler[x].piece_id) = asked[handler[x].piece_id] \ {x}]_vars

(***************************************************************************)
(* C35: in Endgame, an update with pieces still needed requests every      *)
(* needed piece p from min(3, k) distinct peers, k being the number of     *)
(* unchoked peers that hold p, and from no peer that does not hold p.      *)
(***************************************************************************)
C35_EndgameRequests ==
  [][(EndgameState_update /\ ~is_complete) =>
       \A p \in get_needed_pieces :
         /\ Cardinality(RequestedFrom(p)) =
              Min(max_endgame_peers, Cardinality(UnchokedHolders(p)))
         /\ \A x \in RequestedFrom(p) : x \in DOMAIN peer_pieces /\ p \in peer_pieces[x]]_vars

(***************************************************************************)
(* C36: an update in PeerDiscovery moves the node to Downloading exactly   *)
(* when there are at least min_peers peer connections or more than         *)
(* discovery_timeout seconds have passed since the state was entered. The  *)
(* Downloading state entered is attached to the node and starts            *)
(* download_pieces on entry: what a call of download_pieces requests at    *)
(* that moment is requested.                                               *)
(***************************************************************************)
C36_DiscoveryEndsInDownloading ==
  [][PeerDiscoveryState_update =>
       LET due == \/ Cardinality(peer_connections) >= min_peers
                  \/ now - current_state.start_time > discovery_timeout
       IN /\ (node_state' = "downloading") <=> due
          /\ due => /\ current_state'.node = Self
                    /\ \E peer \in download_choices :
                         sent_now' = {piece_request(peer[p], p) : p \in DOMAIN peer}]_vars

(***************************************************************************)
(* C37: an update in Downloading with a complete store moves the node to   *)
(* Seeding; with an incomplete store and a progress of 95% or more, to     *)
(* Endgame; an update in Endgame with a complete store moves it to         *)
(* Seeding; and no update moves the node backwards in the order            *)
(* PeerDiscovery, Downloading, Endgame, Seeding.                           *)
(***************************************************************************)
C37_StatesMoveForward ==
  [][/\ (DownloadingState_update /\ is_complete) => node_state' = "seeding"
     /\ (DownloadingState_update /\ ~is_complete
           /\ get_download_progress >= endgame_threshold) => node_state' = "endgame"
     /\ (EndgameState_update /\ is_complete) => node_state' = "seeding"
     /\ (PeerDiscoveryState_update \/ DownloadingState_update \/ EndgameState_update)
          => StateRank(node_state') >= StateRank(node_state)]_vars

(***************************************************************************)
(* The choking strategies as functions of their arguments:                 *)
(* OptimisticUnchokeStrategy.select_unchoked_peers and                     *)
(* TitForTatStrategy.select_unchoked_peers. peer_stats is the dictionary   *)
(* as the list of its items <<peer, download_rate>>, in insertion order.   *)
(***************************************************************************)
SlotCounts == 0..MaxSlots
RateVals == 0..MaxRate

StatsLists ==
  {s \in UNION {[1..n -> Peers \X RateVals] : n \in 0..Cardinality(Peers)} :
     \A i, j \in DOMAIN s : s[i][1] = s[j][1] => i = j}

StatsKeys(s) == {s[i][1] : i \in DOMAIN s}

\* sorted(peer_stats.items(), key=download_rate, reverse=True): a stable
\* sort, items of equal rate keep the order of the dictionary
RECURSIVE insert_by_rate(_, _)
insert_by_rate(sorted, item) ==
  IF sorted = <<>> THEN <<item>>
  ELSE IF Head(sorted)[2] >= item[2]
       THEN <<Head(sorted)>> \o insert_by_rate(Tail(sorted), item)
       ELSE <<item>> \o sorted

RECURSIVE sorted_by_rate(_, _)
sorted_by_rate(s, done) ==
  IF s = <<>> THEN done ELSE sorted_by_rate(Tail(s), insert_by_rate(done, Head(s)))

\* TitForTatStrategy.select_unchoked_peers: sorted_peers[:max_unchoked]
tit_for_tat_select(s, U) ==
  LET sorted_peers == sorted_by_rate(s, <<>>)
  IN {sorted_peers[i][1] : i \in 1..Min(U, Len(sorted_peers))}

\* OptimisticUnchokeStrategy, lines 34-38: the values optimistic_unchoked
\* may have after the rotation test (random.choice over the keys)
optimistic_after(s, opt, passed) ==
  IF (opt = NoPeer \/ passed) /\ s # <<>> THEN StatsKeys(s) ELSE {opt}

\* lines 47-69: the optimistic peer if it is a key, then the sorted peers
\* while remaining_slots > 0
optimistic_select(s, opt, U) ==
  LET selected_peers == IF opt # NoPeer /\ opt \in StatsKeys(s) THEN {opt} ELSE {}
      remaining_slots == U - Cardinality(selected_peers)
      sorted_peers == sorted_by_rate(s, <<>>)
      NotSelected(item) == item[1] \notin selected_peers
      others == SelectSeq(sorted_peers, NotSelected)
  IN selected_peers \cup
       {others[i][1] : i \in 1..Min(IF remaining_slots > 0 THEN remaining_slots ELSE 0,
                                    Len(others))}

\* the call to come: the arguments, and the fields of the optimistic
\* strategy when it is made
InitChoke ==
  /\ InitStore /\ InitObs /\ InitNode({}, "peer_discovery") /\ InitLink /\ InitLeecher
  /\ \E s \in StatsLists, U \in SlotCounts, opt \in Peers \cup {NoPeer}, passed \in BOOLEAN :
       strategy_call = [op |-> "select_unchoked_peers", peer_stats |-> s, max_unchoked |-> U,
                        optimistic_unchoked |-> opt, interval_passed |-> passed,
                        strategy |-> "none", result |-> {}]

tit_for_tat_call ==
  /\ strategy_call.op = "select_unchoked_peers"
  /\ strategy_call.strategy = "none"
  /\ strategy_call' =
       [strategy_call EXCEPT !.strategy = "tit_for_tat",
          !.result = tit_for_tat_select(strategy_call.peer_stats, strategy_call.max_unchoked)]
  /\ CallStill

optimistic_call ==
  /\ strategy_call.op = "select_unchoked_peers"
  /\ strategy_call.strategy = "none"
  /\ \E opt \in optimistic_after(strategy_call.peer_stats, strategy_call.optimistic_unchoked,
                                 strategy_call.interval_passed) :
       strategy_call' =
         [strategy_call EXCEPT !.strategy = "optimistic", !.optimistic_unchoked = opt,
            !.result = optimistic_select(strategy_call.peer_stats, opt,
                                         strategy_call.max_unchoked)]
  /\ CallStill

NextChoke ==
  \/ tit_for_tat_call
  \/ optimistic_call

SpecChoke == InitChoke /\ [][NextChoke]_vars

\* the rate of a key of the list s
RateOf(s, x) == LET i == CHOOSE i \in DOMAIN s : s[i][1] = x IN s[i][2]

\* no peer outside `chosen` among `among` has a higher rate than one inside
TopByRate(s, chosen, among) ==
  \A x \in chosen, y \in among \ chosen : RateOf(s, x) >= RateOf(s, y)

(***************************************************************************)
(* C38: for a peer_stats map of n peers and U >= 0 both strategies return  *)
(* exactly min(U, n) distinct peers, all keys of the map. Tit-for-tat      *)
(* returns those of highest download_rate; the optimistic strategy returns *)
(* its optimistic peer and, for the other slots, the peers of highest      *)
(* download_rate among the rest.                                           *)
(***************************************************************************)
C38_UnchokedCount ==
  (strategy_call.op = "select_unchoked_peers" /\ strategy_call.strategy # "none") =>
    LET s == strategy_call.peer_stats
        keys == StatsKeys(s)
        result == strategy_call.result
        opt == strategy_call.optimistic_unchoked
    IN /\ result \subseteq keys
       /\ Cardinality(result) = Min(strategy_call.max_unchoked, Len(s))
       /\ strategy_call.strategy = "tit_for_tat" => TopByRate(s, result, keys)
       /\ strategy_call.strategy = "optimistic" =>
            TopByRate(s, result \ {opt}, keys \ {opt})

(***************************************************************************)
(* C39: when a client connection closes, at most the registry entry of the *)
(* peer that registered over that connection is removed: every other entry *)
(* of active_peers, those of peers at the same IP included, is still there *)
(* and unchanged.                                                          *)
(***************************************************************************)
C39_CloseRemovesOwnEntry ==
  [][\A c \in Clients :
       client_closed(c) =>
         \A k \in DOMAIN active_peers :
           k # registered[c] => k \in DOMAIN active_peers' /\ active_peers'[k] = active_peers[k]]_vars

(***************************************************************************)
(* Node.download_pieces as a function of what it reads: the needed pieces, *)
(* peer_pieces, the connected and the unchoked peers, the regime and the   *)
(* pipeline depth of the selection manager, whose own in-flight set is     *)
(* empty. The result is the set of requests <<piece, peer>> it sends.      *)
(***************************************************************************)
\* Node._select_peer_for_piece: the peers random.choice draws from
suitable_among(pp, connections, unchoked, p) ==
  {x \in DOMAIN pp : p \in pp[x] /\ x \in connections /\ x \in unchoked}

\* lines 579-582: one request for each selected piece that has a suitable
\* peer
requests_for(selection, pp, connections, unchoked) ==
  LET requested == {p \in Range(selection) : suitable_among(pp, connections, unchoked, p) # {}}
  IN {{<<p, peer[p]>> : p \in requested} :
        peer \in {f \in [requested -> Peers] :
                    \A p \in requested : f[p] \in suitable_among(pp, connections, unchoked, p)}}

InitDownload ==
  /\ InitStore /\ InitObs /\ InitNode({}, "peer_discovery") /\ InitLink /\ InitLeecher
  /\ \E N \in SUBSET SelPieces, depth \in Depths \ {0} :
       \E pp \in [Peers -> SUBSET SelPieces], connections \in SUBSET Peers,
          unchoked \in SUBSET Peers :
         strategy_call = [op |-> "download_pieces", needed_pieces |-> SortedSeq(N),
                          peer_pieces |-> pp, in_progress_pieces |-> {},
                          max_pipeline_depth |-> depth, peer_connections |-> connections,
                          unchoked_peers |-> unchoked, strategy |-> "none", result |-> {}]

\* download_pieces with the manager in the regime `strategy`, the selection
\* being one of `selections`
download_call(strategy, selections) ==
  /\ strategy_call.op = "download_pieces"
  /\ strategy_call.strategy = "none"
  /\ \E selection \in selections :
       \E requests \in requests_for(selection, strategy_call.peer_pieces,
                                    strategy_call.peer_connections,
                                    strategy_call.unchoked_peers) :
         strategy_call' = [strategy_call EXCEPT !.strategy = strategy, !.result = requests]
  /\ CallStill

download_rarest_call ==
  download_call("rarest",
                IF strategy_call.needed_pieces = <<>> THEN {<<>>}
                ELSE {rarest_select_next_piece(strategy_call.needed_pieces,
                                               strategy_call.peer_pieces,
                                               strategy_call.in_progress_pieces,
                                               strategy_call.max_pipeline_depth)})

download_random_call ==
  download_call("random",
                IF strategy_call.needed_pieces = <<>> THEN {<<>>}
                ELSE random_select_next_piece(strategy_call.needed_pieces,
                                              strategy_call.peer_pieces,
                                              strategy_call.in_progress_pieces,
                                              strategy_call.max_pipeline_depth))

NextDownload ==
  \/ download_rarest_call
  \/ download_random_call

SpecDownload == InitDownload /\ [][NextDownload]_vars

(***************************************************************************)
(* C40: when at least one needed piece is held by a connected, unchoked    *)
(* peer, a call of download_pieces sends at least one piece_request, in    *)
(* either regime.                                                          *)
(***************************************************************************)
C40_HeldPieceIsRequested ==
  (strategy_call.op = "download_pieces" /\ strategy_call.strategy # "none") =>
    ((\E p \in Range(strategy_call.needed_pieces) :
        suitable_among(strategy_call.peer_pieces, strategy_call.peer_connections,
                       strategy_call.unchoked_peers, p) # {})
       => strategy_call.result # {})


====
